---- MODULE Spec2Model ----
(***************************************************************************)
(* A model of mxl::lib::FlowSynchronizationGroup (a group of weak          *)
(* references to flow readers that is waited on as a whole) and of the     *)
(* index conversions it uses.                                              *)
(*                                                                         *)
(* The group's std::forward_list is a sequence of ListEntry records; an    *)
(* iterator is a position in it (Len + 1 is end()).  waitForDataAt is      *)
(* split at its only suspension point, the wait on one reader: one step    *)
(* examines an entry (Examine), one step is the return of the blocking     *)
(* wait with everything the loop body does after it (WaitFails,            *)
(* WaitSucceeds...).  The flows' writers (Commit, CommitSlice) and the     *)
(* clock (Tick) run beside the caller.                                     *)
(***************************************************************************)
EXTENDS Integers, Sequences, FiniteSets, TLC

(***************************************************************************)
(* Bounds of the model.                                                    *)
(***************************************************************************)
\* The clock runs from 0 to MaxTick ticks of half a second.
MaxTick == 2
\* A flow's head index runs from 0 to MaxIndex.
MaxIndex == 1
\* The conversions are applied to each anchor value and the MaxOffset values after it.
MaxOffset == 1
\* The writer's grain indices run from 0 to MaxGrain.
MaxGrain == 7
\* A grain's payload has PayloadLen bytes.
PayloadLen == 2
\* getGrain tries again at most SpinBudget times.
SpinBudget == 1
\* The grain indices of the player's buffers run from 0 to MaxBufferIndex.
MaxBufferIndex == 2
\* The history depth N of the flow: the number of slots of its index ring.
HistoryDepth == 4

(***************************************************************************)
(* IndexConversion.hpp                                                     *)
(***************************************************************************)
NsPerSecond == 1000000000
HalfSecondNs == 500000000

\* 2^64 - 1; the value is only ever compared, never computed with.
MXL_UNDEFINED_INDEX == 2^64 - 1

\* C++ integer division: the quotient is truncated towards zero.
CDiv(a, b) ==
    LET q == (IF a < 0 THEN -a ELSE a) \div (IF b < 0 THEN -b ELSE b)
    IN  IF (a < 0) = (b < 0) THEN q ELSE -q

\* static_cast<std::uint64_t> of a 128-bit value.
ToUint64(x) == IF x >= 0 THEN x ELSE x % (2^64)

\* static_cast<std::int64_t> of a 128-bit value.
ToInt64(x) == IF x >= 0 THEN x ELSE -((-x) % (2^64))

timestampToIndex(editRate, timestamp) ==
    IF editRate.denominator # 0 /\ editRate.numerator # 0
    THEN ToUint64(CDiv(timestamp * editRate.numerator + HalfSecondNs * editRate.denominator,
                       NsPerSecond * editRate.denominator))
    ELSE MXL_UNDEFINED_INDEX

indexToTimestamp(editRate, index) ==
    IF editRate.denominator # 0 /\ editRate.numerator # 0
    THEN ToInt64(CDiv(index * editRate.denominator * NsPerSecond + CDiv(editRate.numerator, 2),
                      editRate.numerator))
    ELSE 0

(***************************************************************************)
(* __int128_t arithmetic.  The checker's own integers are too narrow for   *)
(* nanosecond timestamps times a rate, so a 128-bit value is a sign and a  *)
(* magnitude, the magnitude a sequence of limbs in base LimbBase, least    *)
(* significant first and without leading zero limbs (zero is <<>>).        *)
(***************************************************************************)
LimbBase == 10000

\* m without its leading zero limbs.
MagTrim(m) ==
    LET top == CHOOSE i \in 0..Len(m) :
                   (i = 0 \/ m[i] # 0) /\ \A j \in (i + 1)..Len(m) : m[j] = 0
    IN  SubSeq(m, 1, top)

MagLimb(m, i) == IF i <= Len(m) THEN m[i] ELSE 0

\* The limb of a that decides the comparison with b # a of the same length:
\* the most significant one that differs.
MagTopDifference(a, b) ==
    CHOOSE i \in 1..Len(a) :
        a[i] # b[i] /\ SubSeq(a, i + 1, Len(a)) = SubSeq(b, i + 1, Len(a))

MagLimbCmp(a, b, i) == IF a[i] < b[i] THEN -1 ELSE 1

\* -1, 0 or 1 as a < b, a = b or a > b: decided by the lengths, then by the
\* most significant limb that differs.
MagCmp(a, b) ==
    IF Len(a) < Len(b) THEN -1
    ELSE IF Len(a) > Len(b) THEN 1
    ELSE IF a = b THEN 0
    ELSE MagLimbCmp(a, b, MagTopDifference(a, b))

\* a + b carries into limb i: a limb below i overflows and every limb
\* between that one and i passes the carry on.
MagCarry(a, b, i) ==
    \E j \in 1..(i - 1) :
        /\ MagLimb(a, j) + MagLimb(b, j) >= LimbBase
        /\ \A k \in (j + 1)..(i - 1) : MagLimb(a, k) + MagLimb(b, k) = LimbBase - 1

\* The n lowest limbs of a + b.
MagAddLimbs(a, b, n) ==
    SubSeq([i \in 1..n |->
               (MagLimb(a, i) + MagLimb(b, i) + (IF MagCarry(a, b, i) THEN 1 ELSE 0))
                   % LimbBase], 1, n)

\* a + b, for limbs of a and b below LimbBase (leading zero limbs allowed).
MagAdd(a, b) ==
    IF a = <<>> THEN MagTrim(b)
    ELSE IF b = <<>> THEN MagTrim(a)
    ELSE MagTrim(MagAddLimbs(a, b, (IF Len(a) > Len(b) THEN Len(a) ELSE Len(b)) + 1))

\* a - b borrows from limb i: a limb of a below i is less than b's and every
\* limb between that one and i is equal to b's.
MagBorrow(a, b, i) ==
    \E j \in 1..(i - 1) :
        /\ MagLimb(a, j) < MagLimb(b, j)
        /\ \A k \in (j + 1)..(i - 1) : MagLimb(a, k) = MagLimb(b, k)

\* a - b for a >= b.
MagSub(a, b) ==
    IF b = <<>> THEN a
    ELSE MagTrim(SubSeq([i \in 1..Len(a) |->
                            (a[i] - MagLimb(b, i) - (IF MagBorrow(a, b, i) THEN 1 ELSE 0))
                                % LimbBase], 1, Len(a)))

\* The number whose limb i is c[i], for limbs c[i] below LimbBase^3 (the
\* columns of a multiplication before the carries): the sum of the low, the
\* middle and the high parts of the limbs.
MagCarried(c) ==
    MagAdd(MagAdd(SubSeq([i \in 1..Len(c) |-> c[i] % LimbBase], 1, Len(c)),
                  <<0>> \o [i \in 1..Len(c) |-> (c[i] \div LimbBase) % LimbBase]),
           <<0, 0>> \o [i \in 1..Len(c) |-> c[i] \div (LimbBase * LimbBase)])

\* a * d for one limb d.
MagMulSmall(a, d) ==
    IF d = 0 THEN <<>> ELSE MagCarried(SubSeq([i \in 1..Len(a) |-> a[i] * d], 1, Len(a)))

\* The sum of the products a[i] * b[k + 1 - i] for i from lo to hi: the
\* column k of the long multiplication, before the carries.
RECURSIVE MagColumn(_, _, _, _, _)
MagColumn(a, b, k, lo, hi) ==
    IF lo > hi THEN 0 ELSE a[lo] * b[k + 1 - lo] + MagColumn(a, b, k, lo + 1, hi)

MagMul(a, b) ==
    IF a = <<>> \/ b = <<>> THEN <<>>
    ELSE MagCarried(SubSeq([k \in 1..(Len(a) + Len(b) - 1) |->
                               MagColumn(a, b, k, IF k > Len(b) THEN k + 1 - Len(b) ELSE 1,
                                                  IF k > Len(a) THEN Len(a) ELSE k)],
                           1, Len(a) + Len(b) - 1))

\* The quotient of the top limbs of r by the top limb of b, one limb at most.
MagQuotientGuess(top, divisor) ==
    IF top \div divisor >= LimbBase THEN LimbBase - 1 ELSE top \div divisor

\* guess, or the one of the two numbers below it whose product with b is
\* not above r.
MagQuotientFrom(r, b, guess) ==
    IF guess = 0 \/ MagCmp(MagMulSmall(b, guess), r) <= 0 THEN guess
    ELSE IF guess = 1 \/ MagCmp(MagMulSmall(b, guess - 1), r) <= 0 THEN guess - 1
    ELSE guess - 2

\* The limb of the quotient r \div b, for r < b * LimbBase and a divisor b of n
\* limbs whose top limb is at least LimbBase / 2: the quotient of the top limbs
\* is that limb or exceeds it by at most 2.
MagQuotientLimb(r, b) ==
    MagQuotientFrom(r, b,
        MagQuotientGuess(MagLimb(r, Len(b) + 1) * LimbBase + MagLimb(r, Len(b)), b[Len(b)]))

\* Long division of the limbs i, i-1, ..., 1 of a by b, with r the remainder
\* of the limbs above i (less than b) and quot the limbs of the quotient found
\* for them.
RECURSIVE MagDivAt(_, _, _, _, _)

\* The step of the long division that has found the limb q of the quotient
\* of r1, the remainder so far with limb i of a brought down.
MagDivWith(a, b, i, r1, q, quot) ==
    IF q = 0
    THEN MagDivAt(a, b, i - 1, r1, <<q>> \o quot)
    ELSE MagDivAt(a, b, i - 1, MagSub(r1, MagMulSmall(b, q)), <<q>> \o quot)

MagDivAt(a, b, i, r, quot) ==
    IF i = 0 THEN quot
    ELSE MagDivWith(a, b, i, MagTrim(<<a[i]>> \o r),
                    MagQuotientLimb(MagTrim(<<a[i]>> \o r), b), quot)

\* The quotient of a by b for a >= b, both scaled so that the top limb of
\* the divisor is at least LimbBase / 2.
MagQuotScaled(a, b) ==
    MagTrim(MagDivAt(a, b, Len(a) - Len(b) + 1,
                     SubSeq(a, Len(a) - Len(b) + 2, Len(a)), <<>>))

MagScale(b) == LimbBase \div (b[Len(b)] + 1)

\* The quotient of a by b # 0.
MagQuot(a, b) ==
    IF MagCmp(a, b) < 0 THEN <<>>
    ELSE MagQuotScaled(MagMulSmall(a, MagScale(b)), MagMulSmall(b, MagScale(b)))

MagWithRem(a, b, quot) ==
    IF quot = <<>> THEN [quot |-> quot, rem |-> a]
    ELSE [quot |-> quot, rem |-> MagSub(a, MagMul(quot, b))]

\* The quotient and the remainder of a by b # 0.
MagDivMod(a, b) == MagWithRem(a, b, MagQuot(a, b))

RECURSIVE MagOf(_)
MagOf(n) == IF n = 0 THEN <<>> ELSE <<n % LimbBase>> \o MagOf(n \div LimbBase)

RECURSIVE NatOf(_)
NatOf(m) == IF m = <<>> THEN 0 ELSE m[1] + LimbBase * NatOf(Tail(m))

\* A signed value; zero has no sign.
Signed(neg, mag) == [neg |-> neg /\ mag # <<>>, mag |-> mag]

\* The value of an integer of the checker, and back.
Wide(n) == IF n < 0 THEN Signed(TRUE, MagOf(-n)) ELSE Signed(FALSE, MagOf(n))

Narrow(x) == IF x.neg THEN -NatOf(x.mag) ELSE NatOf(x.mag)

WideNeg(x) == Signed(~x.neg, x.mag)

WideAdd(x, y) ==
    IF x.neg = y.neg THEN Signed(x.neg, MagAdd(x.mag, y.mag))
    ELSE IF MagCmp(x.mag, y.mag) >= 0 THEN Signed(x.neg, MagSub(x.mag, y.mag))
    ELSE Signed(y.neg, MagSub(y.mag, x.mag))

WideSub(x, y) == WideAdd(x, WideNeg(y))

WideMul(x, y) == Signed(x.neg # y.neg, MagMul(x.mag, y.mag))

\* x < y, x <= y
WideLess(x, y) ==
    IF x.neg # y.neg THEN x.neg
    ELSE IF x.neg THEN MagCmp(x.mag, y.mag) > 0
    ELSE MagCmp(x.mag, y.mag) < 0

WideLeq(x, y) == ~WideLess(y, x)

\* The quotient truncated towards zero, as operator/ of C++ gives it.
WideDivTrunc(x, y) == Signed(x.neg # y.neg, MagQuot(x.mag, y.mag))

\* The quotient d.quot of two magnitudes with the sign neg, rounded towards
\* minus infinity.
WideFloorOf(neg, d) ==
    IF neg /\ d.rem # <<>> THEN Signed(TRUE, MagAdd(d.quot, <<1>>)) ELSE Signed(neg, d.quot)

\* The quotient rounded towards minus infinity.
WideDivFloor(x, y) == WideFloorOf(x.neg # y.neg, MagDivMod(x.mag, y.mag))

\* The remainder r of a magnitude by m, counted from below for a negative
\* dividend.
WideModOf(neg, m, r) ==
    IF neg /\ r # <<>> THEN Signed(FALSE, MagSub(m, r)) ELSE Signed(FALSE, r)

\* x modulo m, in 0 .. m - 1, for m > 0.
WideMod(x, m) == WideModOf(x.neg, m.mag, MagDivMod(x.mag, m.mag).rem)

Two63 == [neg |-> FALSE, mag |-> <<5808, 5477, 368, 3372, 922>>]
Two64 == [neg |-> FALSE, mag |-> <<1616, 955, 737, 6744, 1844>>]
Two127 == [neg |-> FALSE, mag |-> <<5728, 8410, 7158, 7303, 3168, 2317, 469, 8346, 1411, 170>>]
Two128 == [neg |-> FALSE, mag |-> <<1456, 6821, 4317, 4607, 6337, 4634, 938, 6692, 2823, 340>>]

INT64_MAX == [neg |-> FALSE, mag |-> <<5807, 5477, 368, 3372, 922>>]
INT64_MIN == [neg |-> TRUE, mag |-> <<5808, 5477, 368, 3372, 922>>]
UINT64_MAX == [neg |-> FALSE, mag |-> <<1615, 955, 737, 6744, 1844>>]

InInt64(x) == WideLeq(INT64_MIN, x) /\ WideLeq(x, INT64_MAX)

\* The values an __int128_t holds.
InInt128(x) == WideLeq(WideNeg(Two127), x) /\ WideLess(x, Two127)

\* The two's complement number of as many bits as modulus has values that
\* u, in 0 .. modulus - 1, stands for.
TwosComplement(u, half, modulus) == IF WideLess(u, half) THEN u ELSE WideSub(u, modulus)

\* The value an __int128_t holds after a computation whose exact result is x:
\* x itself in range; out of range the behaviour is undefined, and the
\* instructions the compilers emit wrap.
Wrap128(x) ==
    IF x.mag = <<>> \/ InInt128(x) THEN x
    ELSE TwosComplement(WideMod(x, Two128), Two127, Two128)

Int128Add(x, y) ==
    IF x.mag = <<>> THEN y ELSE IF y.mag = <<>> THEN x ELSE Wrap128(WideAdd(x, y))

Int128Mul(x, y) ==
    IF x.mag = <<>> THEN x ELSE IF y.mag = <<>> THEN y ELSE Wrap128(WideMul(x, y))

Int128Div(x, y) ==
    IF x.mag = <<>> THEN x ELSE Wrap128(WideDivTrunc(x, y))

\* static_cast<std::uint64_t> of an __int128_t: the value modulo 2^64.
CastUint64(x) == WideMod(x, Two64)

\* static_cast<std::int64_t> of an __int128_t: the value modulo 2^64, as a
\* two's complement number.
CastInt64(x) == TwosComplement(WideMod(x, Two64), Two63, Two64)

(***************************************************************************)
(* IndexConversion.hpp on its own argument types: a 64-bit timestamp or    *)
(* index and a rate of two 64-bit terms, with __int128_t intermediates.    *)
(* timestampToIndex and indexToTimestamp above are these functions on      *)
(* arguments small enough for the checker's integers.                      *)
(***************************************************************************)
Rational(numerator, denominator) == [numerator |-> numerator, denominator |-> denominator]

\* Some exact intermediate of timestampToIndex leaves the range of __int128_t.
timestampToIndexOverflows(editRate, timestamp) ==
    LET product == WideMul(timestamp, editRate.numerator)
        half == WideMul(Wide(HalfSecondNs), editRate.denominator)
    IN  \/ ~InInt128(product)
        \/ ~InInt128(half)
        \/ ~InInt128(WideAdd(product, half))
        \/ ~InInt128(WideMul(Wide(NsPerSecond), editRate.denominator))

\* timestampToIndex with the products computed in 64 bits.
timestampToIndex64(editRate, timestamp) ==
    IF editRate.denominator # Wide(0) /\ editRate.numerator # Wide(0)
    THEN CastUint64(Int128Div(
             Int128Add(CastInt64(WideMul(timestamp, editRate.numerator)),
                       CastInt64(WideMul(Wide(HalfSecondNs), editRate.denominator))),
             CastInt64(WideMul(Wide(NsPerSecond), editRate.denominator))))
    ELSE UINT64_MAX

\* timestampToIndex testing the denominator only.
timestampToIndexDenominatorOnly(editRate, timestamp) ==
    IF editRate.denominator # Wide(0)
    THEN CastUint64(Int128Div(
             Int128Add(Int128Mul(timestamp, editRate.numerator),
                       Int128Mul(Wide(HalfSecondNs), editRate.denominator)),
             Int128Mul(Wide(NsPerSecond), editRate.denominator)))
    ELSE UINT64_MAX

\* timestampToIndex adding a whole second where half a second is meant.
timestampToIndexRoundsUp(editRate, timestamp) ==
    IF editRate.denominator # Wide(0) /\ editRate.numerator # Wide(0)
    THEN CastUint64(Int128Div(
             Int128Add(Int128Mul(timestamp, editRate.numerator),
                       Int128Mul(Wide(NsPerSecond), editRate.denominator)),
             Int128Mul(Wide(NsPerSecond), editRate.denominator)))
    ELSE UINT64_MAX

\* timestampToIndex without the rounding term.
timestampToIndexNoRounding(editRate, timestamp) ==
    IF editRate.denominator # Wide(0) /\ editRate.numerator # Wide(0)
    THEN CastUint64(Int128Div(Int128Mul(timestamp, editRate.numerator),
                              Int128Mul(Wide(NsPerSecond), editRate.denominator)))
    ELSE UINT64_MAX

\* Lines 12-23.  MXL_UNDEFINED_INDEX is UINT64_MAX.
timestampToIndexWide(editRate, timestamp) ==
    IF editRate.denominator # Wide(0) /\ editRate.numerator # Wide(0)
    THEN CastUint64(Int128Div(
             Int128Add(Int128Mul(timestamp, editRate.numerator),
                       Int128Mul(Wide(HalfSecondNs), editRate.denominator)),
             Int128Mul(Wide(NsPerSecond), editRate.denominator)))
    ELSE UINT64_MAX

\* Some exact intermediate of indexToTimestamp leaves the range of __int128_t.
indexToTimestampOverflows(editRate, index) ==
    LET product == WideMul(index, editRate.denominator)
        scaled == WideMul(product, Wide(NsPerSecond))
    IN  /\ editRate.denominator # Wide(0)
        /\ editRate.numerator # Wide(0)
        /\ \/ ~InInt128(product)
           \/ ~InInt128(scaled)
           \/ ~InInt128(WideAdd(scaled, WideDivTrunc(editRate.numerator, Wide(2))))

\* indexToTimestamp without the rounding term.
indexToTimestampNoRounding(editRate, index) ==
    IF editRate.denominator # Wide(0) /\ editRate.numerator # Wide(0)
    THEN CastInt64(Int128Div(
             Int128Mul(Int128Mul(index, editRate.denominator), Wide(NsPerSecond)),
             editRate.numerator))
    ELSE Wide(0)

\* indexToTimestamp with the terms of the rate taken for each other.
indexToTimestampSwapped(editRate, index) ==
    IF editRate.denominator # Wide(0) /\ editRate.numerator # Wide(0)
    THEN CastInt64(Int128Div(
             Int128Add(Int128Mul(Int128Mul(index, editRate.numerator), Wide(NsPerSecond)),
                       Int128Div(editRate.denominator, Wide(2))),
             editRate.denominator))
    ELSE Wide(0)

\* Lines 25-34.  Timepoint{} is the zero Timepoint.
indexToTimestampWide(editRate, index) ==
    IF editRate.denominator # Wide(0) /\ editRate.numerator # Wide(0)
    THEN CastInt64(Int128Div(
             Int128Add(Int128Mul(Int128Mul(index, editRate.denominator), Wide(NsPerSecond)),
                       Int128Div(editRate.numerator, Wide(2))),
             editRate.numerator))
    ELSE Wide(0)

(***************************************************************************)
(* The world around the group: readers, their flows, the TAI clock.        *)
(***************************************************************************)
Discrete == "Discrete"
Continuous == "Continuous"

\* The reader objects of the process: two discrete readers and a continuous one.
Readers == {"A", "B", "C"}

\* The dynamic type of a reader object.
ReaderVariant(reader) == IF reader = "C" THEN Continuous ELSE Discrete

\* reader.getFlowConfigInfo().common.grainRate: fixed when the flow is created.
ConfigGrainRate(reader) ==
    IF reader = "A" THEN [numerator |-> 1, denominator |-> 1]
                    ELSE [numerator |-> 2, denominator |-> 1]

\* One tick of the model's clock, in nanoseconds.
TickNs == HalfSecondNs

Times == {k * TickNs : k \in 0..MaxTick}

\* The origin times a caller passes.  They stay below one second so that
\* timestamp * numerator + 500'000'000 * denominator fits the checker's integers.
OriginTimes == {0, TickNs}

\* The minValidSlices arguments a caller passes.
SliceCounts == {1, 2}

\* The number of slices of every grain of a discrete flow.
TotalSlices(reader) == 2

MXL_STATUS_OK == "OK"
MXL_ERR_UNKNOWN == "ERR_UNKNOWN"
MXL_ERR_TIMEOUT == "ERR_TIMEOUT"
MXL_ERR_UNDER_WRITE == "ERR_UNDER_WRITE"
MXL_ERR_READER_GONE == "ERR_READER_GONE"

Statuses == {MXL_STATUS_OK, MXL_ERR_UNKNOWN, MXL_ERR_TIMEOUT, MXL_ERR_UNDER_WRITE,
             MXL_ERR_READER_GONE}

VARIABLES
    readers,      \* FlowSynchronizationGroup::_readers
    headIndex,    \* per flow: the head index its writer has published
    validSlices,  \* per flow: the valid slices of the grain at the head index
    alive,        \* the reader objects that have not been destroyed
    now,          \* currentTime(Clock::TAI)
    pc,           \* "idle", or where the running waitForDataAt is: "loop", "blocked"; "crashed"
    it,           \* waitForDataAt: the iterator `it`, a position in readers
    current,      \* waitForDataAt: the iterator `current` while its wait blocks, else 0
    originTime,   \* waitForDataAt: argument
    deadline,     \* waitForDataAt: argument
    result,       \* history: the status the last waitForDataAt returned ("none": none yet)
    pre,          \* history: readers when the running or last waitForDataAt was called
    goneAtCall,   \* history: the enrolled readers that were already destroyed at that call
    outcome,      \* history: per reader, how its entry was last examined in that call
    examined,     \* history: per reader, the valid slices of the grain at its expected
                  \* index each time its entry was skipped or its wait returned in that call
    lastOp        \* history: the last call made on the group

VARIABLES
    conv,         \* the index conversion under study: its arguments and results
    slots,        \* a discrete flow's index ring with the payload cell of each slot
    writer,       \* the thread that writes the flow's grains (videoThread)
    grainReader,  \* a reader of the flow inside getGrain
    player        \* the looping file player: main, its threads, its handles

groupVars == <<readers, headIndex, validSlices, alive, now, pc, it, current, originTime,
               deadline, result, pre, goneAtCall, outcome, examined, lastOp>>

ringVars == <<slots, writer, grainReader>>

vars == <<groupVars, conv, ringVars, player>>

flowVars == <<headIndex, validSlices, alive, now>>

localVars == <<it, current, originTime, deadline>>

historyVars == <<result, pre, goneAtCall, outcome, examined>>

(***************************************************************************)
(* FlowSynchronizationGroup: the list operations.                          *)
(***************************************************************************)
\* ListEntry::ListEntry(FlowReader const&, Variant), then the public constructors.
ListEntry(reader, variant, minValidSlices) ==
    [reader |-> reader,
     minValidSlices |-> minValidSlices,
     variant |-> variant,
     grainRate |-> ConfigGrainRate(reader),
     maxObservedSourceDelay |-> 0]

\* The loop of addReader / removeReader: the position of the first entry whose
\* reader pointer equals &reader, 0 when the loop runs to end().
FindReader(list, reader) ==
    LET S == {i \in 1..Len(list) : list[i].reader = reader}
    IN  IF S = {} THEN 0 ELSE CHOOSE i \in S : \A j \in S : i <= j

\* erase_after(prev) with prev the predecessor of position i.
EraseAt(list, i) == SubSeq(list, 1, i - 1) \o SubSeq(list, i + 1, Len(list))

\* addReader without the search for the reader: always emplace_after the tail.
addReaderDiscreteAlways(list, reader, minValidSlices) ==
    Append(list, ListEntry(reader, Discrete, minValidSlices))

\* addReader that re-constructs the entry of an enrolled reader in place.
addReaderDiscreteFresh(list, reader, minValidSlices) ==
    LET i == FindReader(list, reader)
    IN  IF i # 0
        THEN [list EXCEPT ![i] = ListEntry(reader, Discrete, minValidSlices)]
        ELSE Append(list, ListEntry(reader, Discrete, minValidSlices))

addReaderDiscrete(list, reader, minValidSlices) ==
    LET i == FindReader(list, reader)
    IN  IF i # 0
        THEN [list EXCEPT ![i].minValidSlices = minValidSlices]
        ELSE Append(list, ListEntry(reader, Discrete, minValidSlices))

\* addReader that links a new entry in at the front (emplace_front).
addReaderContinuousAtFront(list, reader) ==
    LET i == FindReader(list, reader)
    IN  IF i # 0
        THEN list
        ELSE <<ListEntry(reader, Continuous, 0)>> \o list

addReaderContinuous(list, reader) ==
    LET i == FindReader(list, reader)
    IN  IF i # 0
        THEN list
        ELSE Append(list, ListEntry(reader, Continuous, 0))

\* removeReader that erases the match and every entry after it
\* (erase_after(prev, end())).
removeReaderToEnd(list, reader) ==
    LET i == FindReader(list, reader)
    IN  IF i # 0 THEN SubSeq(list, 1, i - 1) ELSE list

\* removeReader with erase_after(current) for erase_after(prev): the entry after
\* the match is erased.
removeReaderAfterMatch(list, reader) ==
    LET i == FindReader(list, reader)
    IN  IF i # 0 /\ i < Len(list) THEN EraseAt(list, i + 1) ELSE list

removeReader(list, reader) ==
    LET i == FindReader(list, reader)
    IN  IF i # 0 THEN EraseAt(list, i) ELSE list

\* std::forward_list::splice_after(before_begin(), list, i) where the element
\* after position i exists: that element, the one FOLLOWING i, is unlinked and
\* linked in at the front.
\* A splice that links the successor in at the front and forgets to unlink it.
SpliceWithoutUnlink(list, i) == <<list[i + 1]>> \o list

SpliceAfterBeforeBegin(list, i) ==
    <<list[i + 1]>> \o SubSeq(list, 1, i) \o SubSeq(list, i + 2, Len(list))

GroupInit ==
    /\ readers = <<>>
    /\ headIndex = [r \in Readers |-> 0]
    /\ validSlices = [r \in Readers |-> TotalSlices(r)]
    /\ alive = Readers
    /\ now = 0
    /\ pc = "idle"
    /\ it = 1
    /\ current = 0
    /\ originTime = 0
    /\ deadline = 0
    /\ result = "none"
    /\ pre = <<>>
    /\ goneAtCall = {}
    /\ outcome = [r \in Readers |-> "none"]
    /\ examined = [r \in Readers |-> <<>>]
    /\ lastOp = [op |-> "none", reader |-> "none"]

\* The history of the last waitForDataAt is dropped by the next call on the group.
ForgetCall ==
    /\ result' = "none"
    /\ pre' = <<>>
    /\ goneAtCall' = {}
    /\ outcome' = [r \in Readers |-> "none"]
    /\ examined' = [r \in Readers |-> <<>>]

(***************************************************************************)
(* The calls the owner of the group makes between two waits.               *)
(***************************************************************************)
AddReaderDiscrete(reader, minValidSlices) ==
    /\ pc = "idle"
    /\ reader \in alive
    /\ ReaderVariant(reader) = Discrete
    /\ readers' = addReaderDiscrete(readers, reader, minValidSlices)
    /\ lastOp' = [op |-> IF \E i \in 1..Len(readers) : readers[i].reader = reader
                         THEN "addAgain" ELSE "addNew",
                  reader |-> reader]
    /\ ForgetCall
    /\ UNCHANGED <<flowVars, pc, localVars>>
    /\ UNCHANGED <<conv, ringVars, player>>

AddReaderContinuous(reader) ==
    /\ pc = "idle"
    /\ reader \in alive
    /\ ReaderVariant(reader) = Continuous
    /\ readers' = addReaderContinuous(readers, reader)
    /\ lastOp' = [op |-> IF \E i \in 1..Len(readers) : readers[i].reader = reader
                         THEN "addAgain" ELSE "addNew",
                  reader |-> reader]
    /\ ForgetCall
    /\ UNCHANGED <<flowVars, pc, localVars>>
    /\ UNCHANGED <<conv, ringVars, player>>

RemoveReader(reader) ==
    /\ pc = "idle"
    /\ reader \in alive
    /\ readers' = removeReader(readers, reader)
    /\ lastOp' = [op |-> IF \E i \in 1..Len(readers) : readers[i].reader = reader
                         THEN "removePresent" ELSE "removeAbsent",
                  reader |-> reader]
    /\ ForgetCall
    /\ UNCHANGED <<flowVars, pc, localVars>>
    /\ UNCHANGED <<conv, ringVars, player>>

\* The owner destroys a reader object that is still enrolled: the group is not
\* told.  One reader is destroyed in a behaviour.
DestroyReader(reader) ==
    /\ pc = "idle"
    /\ alive = Readers
    /\ \E i \in 1..Len(readers) : readers[i].reader = reader
    /\ alive' = alive \ {reader}
    /\ UNCHANGED <<readers, headIndex, validSlices, now, pc, localVars, historyVars, lastOp>>
    /\ UNCHANGED <<conv, ringVars, player>>

(***************************************************************************)
(* The flows' writers and the clock.                                       *)
(***************************************************************************)
\* The writer of a flow commits the next grain (with some or all of its slices)
\* or the next samples: the head index advances.
Commit(reader, slices) ==
    /\ headIndex[reader] < MaxIndex
    /\ slices <= TotalSlices(reader)
    /\ ReaderVariant(reader) = Continuous => slices = TotalSlices(reader)
    /\ headIndex' = [headIndex EXCEPT ![reader] = @ + 1]
    /\ validSlices' = [validSlices EXCEPT ![reader] = slices]
    /\ UNCHANGED <<readers, alive, now, pc, localVars, historyVars, lastOp>>
    /\ UNCHANGED <<conv, ringVars, player>>

\* The writer of a discrete flow commits one more slice of the head grain.
CommitSlice(reader) ==
    /\ validSlices[reader] < TotalSlices(reader)
    /\ validSlices' = [validSlices EXCEPT ![reader] = @ + 1]
    /\ UNCHANGED <<readers, headIndex, alive, now, pc, localVars, historyVars, lastOp>>
    /\ UNCHANGED <<conv, ringVars, player>>

Tick ==
    /\ now < MaxTick * TickNs
    /\ now' = now + TickNs
    /\ UNCHANGED <<readers, headIndex, validSlices, alive, pc, localVars, historyVars, lastOp>>
    /\ UNCHANGED <<conv, ringVars, player>>

(***************************************************************************)
(* waitForDataAt                                                           *)
(***************************************************************************)
\* line 83
ExpectedIndex(entry) == timestampToIndex(entry.grainRate, originTime)

\* line 85: the entry has to be waited on.
\* line 85 with >= for >.
NeedsWaitInclusive(expectedIndex, head) == expectedIndex >= head

NeedsWait(expectedIndex, head) == expectedIndex > head

\* line 84: current->reader->getFlowRuntimeInfo().headIndex.  Through a pointer
\* to a destroyed reader the read is undefined: any value may come back.
RuntimeHeadIndex(reader) ==
    IF reader \in alive THEN {headIndex[reader]} ELSE 0..MaxIndex

\* The valid slices of the grain at index: grains behind the head are complete.
GrainSlices(reader, index) ==
    IF index < headIndex[reader] THEN TotalSlices(reader)
    ELSE IF index = headIndex[reader] THEN validSlices[reader]
    ELSE 0

\* waitForGrain that looks at the head index alone, as waitForSamples does.
waitForGrainHeadOnly(reader, index, minValidSlices, waitDeadline) ==
    IF reader \notin alive THEN Statuses
    ELSE {MXL_ERR_UNDER_WRITE} \cup
         (IF headIndex[reader] >= index THEN {MXL_STATUS_OK}
          ELSE IF now >= waitDeadline THEN {MXL_ERR_TIMEOUT} ELSE {})

\* The statuses waitForGrain(index, minValidSlices, deadline) can return now:
\* OK once the head index has reached index and the grain has minValidSlices
\* valid slices, ERR_TIMEOUT once the deadline has passed without that,
\* ERR_UNDER_WRITE at any time.  On a destroyed reader the call is undefined:
\* any status may come back.
waitForGrain(reader, index, minValidSlices, waitDeadline) ==
    IF reader \notin alive THEN Statuses
    ELSE {MXL_ERR_UNDER_WRITE} \cup
         (IF headIndex[reader] >= index /\ GrainSlices(reader, index) >= minValidSlices
          THEN {MXL_STATUS_OK}
          ELSE IF now >= waitDeadline THEN {MXL_ERR_TIMEOUT} ELSE {})

\* The same for waitForSamples(index, deadline).
waitForSamples(reader, index, waitDeadline) ==
    IF reader \notin alive THEN Statuses
    ELSE {MXL_ERR_UNDER_WRITE} \cup
         (IF headIndex[reader] >= index THEN {MXL_STATUS_OK}
          ELSE IF now >= waitDeadline THEN {MXL_ERR_TIMEOUT} ELSE {})

\* Every entry waited on with waitForSamples.
WaitStatusesSamplesOnly(entry) ==
    waitForSamples(entry.reader, ExpectedIndex(entry), deadline)

\* lines 88-98: the wait is chosen by the entry's variant.
WaitStatuses(entry) ==
    IF entry.variant = Discrete
    THEN waitForGrain(entry.reader, ExpectedIndex(entry), entry.minValidSlices, deadline)
    ELSE waitForSamples(entry.reader, ExpectedIndex(entry), deadline)

\* line 100: the wait succeeded and the loop goes on.
\* line 100 with a timeout taken for a success.
WaitSucceededOrTimedOut(status) == status \in {MXL_STATUS_OK, MXL_ERR_TIMEOUT}

WaitSucceeded(status) == status = MXL_STATUS_OK

\* lines 106-110
SourceDelay(entry) == now - indexToTimestamp(entry.grainRate, ExpectedIndex(entry))

\* Line 113 reached whenever the delay differs from the cached one.
IsNewMaximumAlways(sourceDelay, entry) == sourceDelay # entry.maxObservedSourceDelay

\* lines 108 and 111: the delay is positive and a new maximum for the entry.
IsNewMaximum(sourceDelay, entry) ==
    sourceDelay > 0 /\ sourceDelay > entry.maxObservedSourceDelay

\* line 113
WithObservedDelay(list, i, sourceDelay) ==
    [list EXCEPT ![i].maxObservedSourceDelay = sourceDelay]

\* line 114, evaluated after line 113 has stored the new maximum.
ExceedsHead(list, i) == list[i].maxObservedSourceDelay > list[1].maxObservedSourceDelay

\* Line 123 returning the initial value of `result` (line 87) for every failure.
ReturnUnknown(status) ==
    /\ pc' = "idle"
    /\ result' = IF status = MXL_STATUS_OK THEN status ELSE MXL_ERR_UNKNOWN
    /\ it' = 1
    /\ current' = 0
    /\ originTime' = 0
    /\ deadline' = 0

\* waitForDataAt returns status (lines 123 and 127): its locals go out of scope.
Return(status) ==
    /\ pc' = "idle"
    /\ result' = status
    /\ it' = 1
    /\ current' = 0
    /\ originTime' = 0
    /\ deadline' = 0

\* The loop condition at line 79 with `it` at position nextIt of list: either the
\* body runs again or the call returns MXL_STATUS_OK (line 127).
LoopOrReturn(nextIt, list) ==
    IF nextIt > Len(list)
    THEN Return(MXL_STATUS_OK)
    ELSE /\ pc' = "loop"
         /\ it' = nextIt
         /\ current' = 0
         /\ UNCHANGED <<result, originTime, deadline>>

\* History: the entry is skipped, or its wait returns, with these valid slices
\* in the grain at its expected index.
Observed(entry) ==
    [examined EXCEPT ![entry.reader] =
        Append(@, GrainSlices(entry.reader, ExpectedIndex(entry)))]

\* The call: lines 77-79.
WaitForDataAt(t, d) ==
    /\ pc = "idle"
    /\ d >= now
    /\ pre' = readers
    /\ goneAtCall' = {readers[i].reader : i \in 1..Len(readers)} \ alive
    /\ outcome' = [r \in Readers |-> "none"]
    /\ examined' = [r \in Readers |-> <<>>]
    /\ lastOp' = [op |-> "wait", reader |-> "none"]
    /\ IF Len(readers) = 0
       THEN Return(MXL_STATUS_OK)
       ELSE /\ pc' = "loop"
            /\ result' = "none"
            /\ originTime' = t
            /\ deadline' = d
            /\ it' = 1
            /\ current' = 0
    /\ UNCHANGED <<readers, flowVars>>
    /\ UNCHANGED <<conv, ringVars, player>>

\* Lines 81-86 for the entry at `it`: either it is skipped or its wait starts.
Examine ==
    /\ pc = "loop"
    /\ LET entry == readers[it]
       IN  \E head \in RuntimeHeadIndex(entry.reader) :
             IF NeedsWait(ExpectedIndex(entry), head)
             THEN /\ pc' = "blocked"
                  /\ current' = it
                  /\ it' = it + 1
                  /\ UNCHANGED <<result, outcome, examined, originTime, deadline>>
             ELSE /\ outcome' = [outcome EXCEPT ![entry.reader] = "skipped"]
                  /\ examined' = Observed(entry)
                  /\ LoopOrReturn(it + 1, readers)
    /\ UNCHANGED <<readers, flowVars, pre, goneAtCall, lastOp>>
    /\ UNCHANGED <<conv, ringVars, player>>

\* Line 84 through a pointer to a destroyed reader: the read may fault.
ExamineFaults ==
    /\ pc = "loop"
    /\ readers[it].reader \notin alive
    /\ pc' = "crashed"
    /\ UNCHANGED <<readers, flowVars, localVars, historyVars, lastOp>>
    /\ UNCHANGED <<conv, ringVars, player>>

\* Lines 121-124: the wait returns a status other than OK.
WaitFails(status) ==
    /\ pc = "blocked"
    /\ status \in WaitStatuses(readers[current])
    /\ examined' = Observed(readers[current])
    /\ ~WaitSucceeded(status)
    /\ outcome' = [outcome EXCEPT ![readers[current].reader] = status]
    /\ Return(status)
    /\ UNCHANGED <<readers, flowVars, pre, goneAtCall, lastOp>>
    /\ UNCHANGED <<conv, ringVars, player>>

\* Lines 100-120: the wait returns OK and line 116 is not reached.
WaitSucceeds(status) ==
    /\ pc = "blocked"
    /\ status \in WaitStatuses(readers[current])
    /\ examined' = Observed(readers[current])
    /\ WaitSucceeded(status)
    /\ LET entry == readers[current]
           sourceDelay == SourceDelay(entry)
           updated == IF IsNewMaximum(sourceDelay, entry)
                      THEN WithObservedDelay(readers, current, sourceDelay)
                      ELSE readers
       IN  /\ ~(IsNewMaximum(sourceDelay, entry) /\ ExceedsHead(updated, current))
           /\ readers' = updated
           /\ outcome' = [outcome EXCEPT ![entry.reader] = status]
           /\ LoopOrReturn(it, updated)
    /\ UNCHANGED <<flowVars, pre, goneAtCall, lastOp>>
    /\ UNCHANGED <<conv, ringVars, player>>

\* Lines 100-120: the wait returns OK and line 116 is reached on an entry that
\* has a successor: the successor is moved to the front, and `it`, which points
\* to it, is now at the front of the list.
WaitSucceedsSplice(status) ==
    /\ pc = "blocked"
    /\ status \in WaitStatuses(readers[current])
    /\ examined' = Observed(readers[current])
    /\ WaitSucceeded(status)
    /\ LET entry == readers[current]
           sourceDelay == SourceDelay(entry)
           updated == WithObservedDelay(readers, current, sourceDelay)
       IN  /\ IsNewMaximum(sourceDelay, entry)
           /\ ExceedsHead(updated, current)
           /\ current < Len(readers)
           /\ readers' = SpliceAfterBeforeBegin(updated, current)
           /\ outcome' = [outcome EXCEPT ![entry.reader] = status]
           /\ LoopOrReturn(1, readers')
    /\ UNCHANGED <<flowVars, pre, goneAtCall, lastOp>>
    /\ UNCHANGED <<conv, ringVars, player>>

\* Line 116 reached on the last entry: no element follows `current`, which
\* splice_after requires.  libstdc++ then unlinks the whole list (before_begin's
\* next becomes null), `it` is end() and the call returns OK.
WaitSucceedsSpliceLastEmpties(status) ==
    /\ pc = "blocked"
    /\ status \in WaitStatuses(readers[current])
    /\ examined' = Observed(readers[current])
    /\ WaitSucceeded(status)
    /\ LET entry == readers[current]
           sourceDelay == SourceDelay(entry)
           updated == WithObservedDelay(readers, current, sourceDelay)
       IN  /\ IsNewMaximum(sourceDelay, entry)
           /\ ExceedsHead(updated, current)
           /\ current = Len(readers)
           /\ readers' = <<>>
           /\ outcome' = [outcome EXCEPT ![entry.reader] = status]
           /\ LoopOrReturn(it, <<>>)
    /\ UNCHANGED <<flowVars, pre, goneAtCall, lastOp>>
    /\ UNCHANGED <<conv, ringVars, player>>

\* The same place with a library that reads the missing successor's link
\* (libc++): a null pointer is dereferenced.
WaitSucceedsSpliceLastFaults(status) ==
    /\ pc = "blocked"
    /\ status \in WaitStatuses(readers[current])
    /\ examined' = Observed(readers[current])
    /\ WaitSucceeded(status)
    /\ LET entry == readers[current]
           sourceDelay == SourceDelay(entry)
           updated == WithObservedDelay(readers, current, sourceDelay)
       IN  /\ IsNewMaximum(sourceDelay, entry)
           /\ ExceedsHead(updated, current)
           /\ current = Len(readers)
           /\ readers' = updated
           /\ outcome' = [outcome EXCEPT ![entry.reader] = status]
    /\ pc' = "crashed"
    /\ UNCHANGED <<flowVars, localVars, result, pre, goneAtCall, lastOp>>
    /\ UNCHANGED <<conv, ringVars, player>>

(***************************************************************************)
(* The index conversions applied to arguments of their own range: `conv`   *)
(* holds a rate and a timestamp or an index; one conversion gives the      *)
(* other, the opposite conversion goes back.                               *)
(***************************************************************************)
\* A field of conv that holds no value yet.
NoValue == [neg |-> TRUE, mag |-> <<>>]

\* conv while the conversions are not under study.
NoConversion ==
    [editRate |-> Rational(Wide(0), Wide(0)), given |-> "none", timestamp |-> NoValue,
     index |-> NoValue, back |-> NoValue, stage |-> "off"]

\* NTSC video, PAL video, the rates of the group's flows, audio; rates with a
\* zero term; negative terms; terms at the end of their 64-bit range.
EditRates ==
    {Rational(Wide(30000), Wide(1001)), Rational(Wide(25), Wide(1)),
     Rational(Wide(1), Wide(1)), Rational(Wide(2), Wide(1)), Rational(Wide(48000), Wide(1)),
     Rational(Wide(0), Wide(1)), Rational(Wide(1), Wide(0)), Rational(Wide(0), Wide(0)),
     Rational(Wide(-2), Wide(1)), Rational(Wide(-3), Wide(-1)),
     Rational(Wide(1), INT64_MAX), Rational(INT64_MAX, Wide(1))}

TimestampAnchors ==
    {Wide(0), Wide(HalfSecondNs - 1), Wide(999966666), Wide(NsPerSecond - 1),
     Wide(-500000001 - MaxOffset), WideSub(INT64_MAX, Wide(MaxOffset)), INT64_MIN}

Timestamps == {WideAdd(a, Wide(k)) : a \in TimestampAnchors, k \in 0..MaxOffset}

IndexAnchors ==
    {Wide(0), Wide(2), Wide(29), Wide(500000), Wide(1000000 - MaxOffset),
     Two63, WideSub(UINT64_MAX, Wide(MaxOffset))}

Indices == {WideAdd(a, Wide(k)) : a \in IndexAnchors, k \in 0..MaxOffset}

ConvInit ==
    conv \in {[editRate |-> r, given |-> "timestamp", timestamp |-> t, index |-> NoValue,
               back |-> NoValue, stage |-> "args"] : r \in EditRates, t \in Timestamps}
             \cup
             {[editRate |-> r, given |-> "index", timestamp |-> NoValue, index |-> i,
               back |-> NoValue, stage |-> "args"] : r \in EditRates, i \in Indices}

\* timestampToIndex is called: on the given timestamp, or on the timestamp
\* indexToTimestamp returned for the given index.
TimestampToIndex ==
    /\ \/ /\ conv.stage = "args"
          /\ conv.given = "timestamp"
          /\ conv' = [conv EXCEPT !.index = timestampToIndexWide(conv.editRate, conv.timestamp),
                                  !.stage = "converted"]
       \/ /\ conv.stage = "converted"
          /\ conv.given = "index"
          /\ conv' = [conv EXCEPT !.back = timestampToIndexWide(conv.editRate, conv.timestamp),
                                  !.stage = "returned"]
    /\ UNCHANGED <<groupVars, ringVars, player>>

\* indexToTimestamp is called: on the given index, or on the index
\* timestampToIndex returned for the given timestamp.  Where an intermediate
\* overflows, this is the outcome of a build whose arithmetic wraps.
IndexToTimestamp ==
    /\ \/ /\ conv.stage = "args"
          /\ conv.given = "index"
          /\ conv' = [conv EXCEPT !.timestamp = indexToTimestampWide(conv.editRate, conv.index),
                                  !.stage = "converted"]
       \/ /\ conv.stage = "converted"
          /\ conv.given = "timestamp"
          /\ conv' = [conv EXCEPT !.back = indexToTimestampWide(conv.editRate, conv.index),
                                  !.stage = "returned"]
    /\ UNCHANGED <<groupVars, ringVars, player>>

\* The same call where an intermediate overflows, in a build that traps on
\* signed overflow.
IndexToTimestampTraps ==
    /\ \/ conv.stage = "args" /\ conv.given = "index"
       \/ conv.stage = "converted" /\ conv.given = "timestamp"
    /\ indexToTimestampOverflows(conv.editRate, conv.index)
    /\ conv' = [conv EXCEPT !.stage = "trapped"]
    /\ UNCHANGED <<groupVars, ringVars, player>>

(***************************************************************************)
(* A discrete flow: the index ring, its writer and a reader.               *)
(* The writer is the video thread of the looping file player, which opens  *)
(* a grain, copies the frame into the grain's buffer and commits it.  What *)
(* openGrain, commitGrain and getGrain do to a slot is not in these        *)
(* sources and follows the flow writer, the flow reader and the Seqlock    *)
(* protocol of the design.                                                 *)
(***************************************************************************)
MXL_ERR_NOT_READY == "ERR_NOT_READY"
MXL_ERR_STALE == "ERR_STALE"

\* The index recorded in a slot that no grain was written to.
UnwrittenIndex == -1

\* The slot, and the payload cell, of a grain: index mod N.
SlotOf(index) == index % HistoryDepth

\* The number of slices of every grain of the flow.
SlicesPerGrain == 2

\* The bytes of the frame the thread has mapped for the grain (map.data,
\* map.size): each frame has bytes of its own.
Frame(grainIndex) == [k \in 1..PayloadLen |-> grainIndex + 1]

EmptySlot ==
    [generation |-> 0, index |-> UnwrittenIndex, totalSlices |-> 0, validSlices |-> 0,
     commitTimestamp |-> 0, payload |-> [k \in 1..PayloadLen |-> 0]]

IdleWriter ==
    [pc |-> "idle", grainIndex |-> UnwrittenIndex, headIndex |-> UnwrittenIndex,
     gInfo |-> [totalSlices |-> 0, validSlices |-> 0], copied |-> 0]

IdleReader ==
    [pc |-> "idle", requested |-> 0, spins |-> 0, gen1 |-> 0, gen2 |-> 0,
     info |-> [index |-> UnwrittenIndex, totalSlices |-> 0, validSlices |-> 0,
               commitTimestamp |-> 0],
     payload |-> <<>>, status |-> "none", headAtCall |-> UnwrittenIndex]

RingInit ==
    /\ slots = [k \in 0..(HistoryDepth - 1) |-> EmptySlot]
    /\ writer = IdleWriter
    /\ grainReader = IdleReader

\* The grain index the thread computes for its next sample (line 776): the
\* samples of the pipeline follow one another, one grain each.
NextGrainIndices ==
    {i \in 0..MaxGrain : i = writer.grainIndex + 1}

\* openGrain refuses an index that is not above the one recorded in the slot.
IndexStale(slot, index) == slot.index # UnwrittenIndex /\ index <= slot.index

\* Line 807, mxlFlowWriterOpenGrain: the slot's generation goes from even to odd.
WriterOpenGrain ==
    /\ writer.pc = "idle"
    /\ \E index \in NextGrainIndices :
          /\ ~IndexStale(slots[SlotOf(index)], index)
          /\ slots' = [slots EXCEPT ![SlotOf(index)].generation = @ + 1]
          /\ writer' = [writer EXCEPT !.pc = "opening", !.grainIndex = index, !.copied = 0]
    /\ UNCHANGED <<groupVars, conv, grainReader, player>>

\* Line 807, mxlFlowWriterOpenGrain continued: the slot records the index
\* and no valid slice; the caller receives the info and the buffer.
WriterOpenGrainReturns ==
    /\ writer.pc = "opening"
    /\ slots' = [slots EXCEPT ![SlotOf(writer.grainIndex)] =
                    [@ EXCEPT !.index = writer.grainIndex,
                              !.totalSlices = SlicesPerGrain,
                              !.validSlices = 0]]
    /\ writer' = [writer EXCEPT !.pc = "opened",
                                !.gInfo = [totalSlices |-> SlicesPerGrain, validSlices |-> 0]]
    /\ UNCHANGED <<groupVars, conv, grainReader, player>>

\* Line 813: gInfo.validSlices = gInfo.totalSlices
WriterFillsInfo ==
    /\ writer.pc = "opened"
    /\ writer' = [writer EXCEPT !.pc = "copying", !.gInfo.validSlices = writer.gInfo.totalSlices]
    /\ UNCHANGED <<groupVars, conv, slots, grainReader, player>>

\* Line 814, memcpy: one more byte of the frame is in the grain's buffer.
WriterMemcpy ==
    /\ writer.pc = "copying"
    /\ writer.copied < PayloadLen
    /\ slots' = [slots EXCEPT ![SlotOf(writer.grainIndex)].payload[writer.copied + 1] =
                    Frame(writer.grainIndex)[writer.copied + 1]]
    /\ writer' = [writer EXCEPT !.copied = @ + 1]
    /\ UNCHANGED <<groupVars, conv, grainReader, player>>

\* The grain is committed while memcpy is still copying.
MemcpyDoneOrRunning(w) == w.copied <= PayloadLen

\* Lines 814 and 816: memcpy has returned when the grain is committed.
MemcpyDone(w) == w.copied = PayloadLen

\* Line 816, mxlFlowWriterCommitGrain: the slot records the valid slices and
\* the commit time.
WriterCommitGrain ==
    /\ writer.pc = "copying"
    /\ MemcpyDone(writer)
    /\ slots' = [slots EXCEPT ![SlotOf(writer.grainIndex)] =
                    [@ EXCEPT !.validSlices = writer.gInfo.validSlices,
                              !.commitTimestamp = now]]
    /\ writer' = [writer EXCEPT !.pc = "committing"]
    /\ UNCHANGED <<groupVars, conv, grainReader, player>>

\* The commit publishes the grain before the one it has written as the head.
PublishedHeadPrevious(w) == w.grainIndex - 1

\* The head index a commit publishes: the index of the grain it has written.
PublishedHead(w) == w.grainIndex

\* Line 816, mxlFlowWriterCommitGrain continued: the slot's generation goes
\* from odd to even and the grain is the head of the flow.
WriterCommitGrainReturns ==
    /\ writer.pc = "committing"
    /\ slots' = [slots EXCEPT ![SlotOf(writer.grainIndex)].generation = @ + 1]
    /\ writer' = [writer EXCEPT !.pc = "idle", !.headIndex = PublishedHead(writer)]
    /\ UNCHANGED <<groupVars, conv, grainReader, player>>

\* The reader takes what it has read without loading the generation again.
AcceptsWithoutSecondLoad(r) == r.gen1 % 2 = 0 /\ r.info.index = r.requested

\* The reader accepts what it has read: the generation was the same even
\* number before and after, and the slot records the requested index.
Accepts(r) == r.gen1 = r.gen2 /\ r.gen1 % 2 = 0 /\ r.info.index = r.requested

\* getGrain's status for a slot that was stable while it was read but every
\* index other than the requested one is taken for an older one.
MismatchStatusNeverStale(r) == MXL_ERR_NOT_READY

\* getGrain's status for a slot that was stable while it was read and does not
\* record the requested index: a later grain has taken the slot, or the grain
\* is not there yet.
MismatchStatus(r) ==
    IF r.info.index # UnwrittenIndex /\ r.info.index > r.requested
    THEN MXL_ERR_STALE
    ELSE MXL_ERR_NOT_READY

\* One more try while the spin budget lasts, then ERR_UNDER_WRITE.
SpinOrGiveUp(r) ==
    IF r.spins < SpinBudget
    THEN [r EXCEPT !.pc = "gen1", !.spins = @ + 1]
    ELSE [r EXCEPT !.pc = "returned", !.status = MXL_ERR_UNDER_WRITE]

\* getGrain(index) is called.
GetGrain ==
    /\ grainReader.pc \in {"idle", "returned"}
    /\ \E index \in 0..MaxGrain :
          grainReader' = [IdleReader EXCEPT !.pc = "gen1", !.requested = index,
                                            !.headAtCall = writer.headIndex]
    /\ UNCHANGED <<groupVars, conv, slots, writer, player>>

\* getGrain loads the generation; an odd one lets it spin.
ReaderLoadsGen1 ==
    /\ grainReader.pc = "gen1"
    /\ LET gen == slots[SlotOf(grainReader.requested)].generation
           loaded == [grainReader EXCEPT !.gen1 = gen]
       IN  grainReader' = IF gen % 2 = 1 THEN SpinOrGiveUp(loaded)
                          ELSE [loaded EXCEPT !.pc = "fields"]
    /\ UNCHANGED <<groupVars, conv, slots, writer, player>>

\* getGrain reads the fields of the slot.
ReaderReadsFields ==
    /\ grainReader.pc = "fields"
    /\ LET slot == slots[SlotOf(grainReader.requested)]
       IN  grainReader' = [grainReader EXCEPT
               !.pc = "payload",
               !.payload = <<>>,
               !.info = [index |-> slot.index, totalSlices |-> slot.totalSlices,
                         validSlices |-> slot.validSlices,
                         commitTimestamp |-> slot.commitTimestamp]]
    /\ UNCHANGED <<groupVars, conv, slots, writer, player>>

\* getGrain reads one more byte of the slot's payload cell.
ReaderReadsPayload ==
    /\ grainReader.pc = "payload"
    /\ LET read == Append(grainReader.payload,
                          slots[SlotOf(grainReader.requested)].payload[Len(grainReader.payload) + 1])
       IN  grainReader' = [grainReader EXCEPT
               !.payload = read,
               !.pc = IF Len(read) = PayloadLen THEN "gen2" ELSE "payload"]
    /\ UNCHANGED <<groupVars, conv, slots, writer, player>>

\* getGrain loads the generation again and accepts, reports the slot's
\* index, or tries again.
ReaderLoadsGen2 ==
    /\ grainReader.pc = "gen2"
    /\ LET loaded == [grainReader EXCEPT
                         !.gen2 = slots[SlotOf(grainReader.requested)].generation]
       IN  grainReader' =
               IF Accepts(loaded)
               THEN [loaded EXCEPT !.pc = "returned", !.status = MXL_STATUS_OK]
               ELSE IF loaded.gen1 = loaded.gen2
               THEN [loaded EXCEPT !.pc = "returned", !.status = MismatchStatus(loaded)]
               ELSE SpinOrGiveUp(loaded)
    /\ UNCHANGED <<groupVars, conv, slots, writer, player>>


(***************************************************************************)
(* The looping file player: main, the video and the audio thread, and the  *)
(* destructor that releases what the player has acquired.                  *)
(***************************************************************************)
\* What a flow writer handle of the player refers to.
WriterNull == "null"
WriterOpen == "open"
WriterReleased == "released"

\* The value of an empty std::optional, and of one that holds v.
Nullopt == <<>>

Engaged(v) == <<v>>

\* Lines 296-304 and 923-949: the player after its constructor.
PlayerInit ==
    player = [main |-> "constructed", running |-> FALSE,
              appSinkVideo |-> FALSE, appSinkAudio |-> FALSE,
              videoThread |-> "none", audioThread |-> "none",
              flowWriterVideo |-> WriterNull, flowWriterAudio |-> WriterNull,
              mxlInstance |-> "live", usedAfterRelease |-> FALSE,
              internalOffset |-> Nullopt,
              lastVideoGrainIndex |-> 0, lastAudioGrainIndex |-> 0,
              \* history: the offsets assigned and those buffers were re-stamped with
              assigned |-> <<>>, stamps |-> {},
              \* g_exit_requested, line 162
              exitRequested |-> FALSE,
              \* history, per thread: a buffer was processed, the grain index of
              \* the buffer before the last one, and the last one raised the warning
              videoSeen |-> FALSE, audioSeen |-> FALSE,
              videoPrevious |-> Nullopt, audioPrevious |-> Nullopt,
              videoWarned |-> FALSE, audioWarned |-> FALSE]

\* Lines 355-632, open: the pads found give the app sinks; the video writer
\* is created first (line 512), the audio writer after it (line 621); open
\* returns true when every sink found has its writer and one was found.
OpenSucceeds(video, audio, videoWriter, audioWriter) ==
    /\ video \/ audio
    /\ video => videoWriter
    /\ audio => audioWriter

\* Lines 986-990 of main with open: after a failed open main returns and the
\* player is destroyed.
PlayerOpen ==
    /\ player.main = "constructed"
    /\ \E video, audio, videoWriter, audioWriter \in BOOLEAN :
          /\ videoWriter => video
          /\ audioWriter => audio /\ (video => videoWriter)
          /\ player' = [player EXCEPT
                !.appSinkVideo = video,
                !.appSinkAudio = audio,
                !.flowWriterVideo = IF videoWriter THEN WriterOpen ELSE WriterNull,
                !.flowWriterAudio = IF audioWriter THEN WriterOpen ELSE WriterNull,
                !.main = IF OpenSucceeds(video, audio, videoWriter, audioWriter)
                         THEN "opened" ELSE "join_video"]
    /\ UNCHANGED <<groupVars, conv, ringVars>>

\* Lines 634-653, start: running is set and a thread is created per app sink.
PlayerStart ==
    /\ player.main = "opened"
    /\ player' = [player EXCEPT
          !.main = "started",
          !.running = TRUE,
          !.videoThread = IF player.appSinkVideo THEN "loop" ELSE "none",
          !.audioThread = IF player.appSinkAudio THEN "loop" ELSE "none"]
    /\ UNCHANGED <<groupVars, conv, ringVars>>

\* Lines 164-174, signal_handler: SIGINT or SIGTERM, delivered at any time
\* before main has returned, sets g_exit_requested.
SignalHandler ==
    /\ player.main # "destroyed"
    /\ ~player.exitRequested
    /\ player' = [player EXCEPT !.exitRequested = TRUE]
    /\ UNCHANGED <<groupVars, conv, ringVars>>

\* Line 1009, the negated condition of the wait loop of main.
LoopEndsWhenPlayerStops(p) == ~p.running

LoopEnds(p) == p.exitRequested \/ ~p.running

\* Lines 1009-1013: main leaves its wait loop; while the condition holds it
\* sleeps 100 ms and tests again, which changes nothing.
MainLeavesLoop ==
    /\ player.main = "started"
    /\ LoopEnds(player)
    /\ player' = [player EXCEPT !.main = "left_loop"]
    /\ UNCHANGED <<groupVars, conv, ringVars>>

\* Lines 1014-1017 of main and lines 655-658, stop: main calls stop, which
\* clears running, when isRunning() is true.
PlayerStop ==
    /\ player.main = "left_loop"
    /\ player' = [player EXCEPT
          !.main = "stopped",
          !.running = IF player.running THEN FALSE ELSE @]
    /\ UNCHANGED <<groupVars, conv, ringVars>>

\* Line 1021 of main, player.reset(): the destructor begins.
PlayerReset ==
    /\ player.main = "stopped"
    /\ player' = [player EXCEPT !.main = "join_video"]
    /\ UNCHANGED <<groupVars, conv, ringVars>>

\* A call on a flow writer handle: a use after its release is recorded.
UsedAfterRelease(p, handle) == p.usedAfterRelease \/ handle # WriterOpen

\* mxlTimestampToIndex of the re-stamped buffer: the buffers of a sink follow
\* one another in time, and a grain may be repeated or skipped.
BufferIndices(seen, last) ==
    IF seen THEN last..MaxBufferIndex ELSE 0..MaxBufferIndex

\* Lines 778-787 (video) and 857-866 (audio), from the comparison on: `last`
\* is the member as line 778 has just stored it.  The indices of the model
\* stay far below 2^64, where last + 1 wraps.
SkipWarning(last, grainIndex) ==
    IF last = 0 THEN FALSE ELSE grainIndex # last + 1

\* Lines 760-767: the video thread finds running set and pulls a sample with a
\* buffer.
VideoPullsSample ==
    /\ player.videoThread = "loop"
    /\ player.running
    /\ player' = [player EXCEPT !.videoThread = "pulled"]
    /\ UNCHANGED <<groupVars, conv, ringVars>>

\* Line 769: if (!_internalOffset)
VideoTestsOffset ==
    /\ player.videoThread = "pulled"
    /\ player' = [player EXCEPT
          !.videoThread = IF player.internalOffset = Nullopt THEN "unset" ELSE "stamping"]
    /\ UNCHANGED <<groupVars, conv, ringVars>>

\* Line 771: _internalOffset = mxlGetTime() - (pts + gstBaseTime)
VideoSetsOffset ==
    /\ player.videoThread = "unset"
    /\ player' = [player EXCEPT
          !.videoThread = "stamping",
          !.internalOffset = Engaged("offset of the video buffer"),
          !.assigned = Append(@, "offset of the video buffer")]
    /\ UNCHANGED <<groupVars, conv, ringVars>>

\* Lines 775-787: the buffer is re-stamped with *_internalOffset, its grain
\* index is computed and stored, and the warning is raised or not.
VideoStampsBuffer ==
    /\ player.videoThread = "stamping"
    /\ \E grainIndex \in BufferIndices(player.videoSeen, player.lastVideoGrainIndex) :
          player' = [player EXCEPT
              !.videoThread = "buffer",
              !.stamps = @ \cup {player.internalOffset[1]},
              !.videoSeen = TRUE,
              !.videoPrevious = IF player.videoSeen THEN Engaged(player.lastVideoGrainIndex)
                                ELSE Nullopt,
              !.lastVideoGrainIndex = grainIndex,
              !.videoWarned = SkipWarning(grainIndex, grainIndex)]
    /\ UNCHANGED <<groupVars, conv, ringVars>>

\* Line 807: the video thread opens a grain; a failure leaves the loop.
VideoOpensGrain ==
    /\ player.videoThread = "buffer"
    /\ \E ok \in BOOLEAN :
          player' = [player EXCEPT
              !.videoThread = IF ok THEN "opened" ELSE "failed",
              !.usedAfterRelease = UsedAfterRelease(player, player.flowWriterVideo)]
    /\ UNCHANGED <<groupVars, conv, ringVars>>

\* Line 816: the video thread commits the grain; a failure leaves the loop.
VideoCommitsGrain ==
    /\ player.videoThread = "opened"
    /\ \E ok \in BOOLEAN :
          player' = [player EXCEPT
              !.videoThread = IF ok THEN "sleeping" ELSE "failed",
              !.usedAfterRelease = UsedAfterRelease(player, player.flowWriterVideo)]
    /\ UNCHANGED <<groupVars, conv, ringVars>>

\* Lines 825-826: mxlSleepForNs until the time of the grain written.
VideoThreadSleeps ==
    /\ player.videoThread = "sleeping"
    /\ player' = [player EXCEPT !.videoThread = "loop"]
    /\ UNCHANGED <<groupVars, conv, ringVars>>

\* Line 760: the video thread finds running cleared and returns.
VideoThreadReturns ==
    /\ player.videoThread = "loop"
    /\ ~player.running
    /\ player' = [player EXCEPT !.videoThread = "done"]
    /\ UNCHANGED <<groupVars, conv, ringVars>>

\* Lines 839-846: the audio thread finds running set and pulls a sample with
\* a buffer.
AudioPullsSample ==
    /\ player.audioThread = "loop"
    /\ player.running
    /\ player' = [player EXCEPT !.audioThread = "pulled"]
    /\ UNCHANGED <<groupVars, conv, ringVars>>

\* Line 848: if (!_internalOffset)
AudioTestsOffset ==
    /\ player.audioThread = "pulled"
    /\ player' = [player EXCEPT
          !.audioThread = IF player.internalOffset = Nullopt THEN "unset" ELSE "stamping"]
    /\ UNCHANGED <<groupVars, conv, ringVars>>

\* Line 850: _internalOffset = mxlGetTime() - (pts + gstBaseTime)
AudioSetsOffset ==
    /\ player.audioThread = "unset"
    /\ player' = [player EXCEPT
          !.audioThread = "stamping",
          !.internalOffset = Engaged("offset of the audio buffer"),
          !.assigned = Append(@, "offset of the audio buffer")]
    /\ UNCHANGED <<groupVars, conv, ringVars>>

\* Lines 854-866: the buffer is re-stamped with *_internalOffset, its grain
\* index is computed and stored, and the warning is raised or not.
AudioStampsBuffer ==
    /\ player.audioThread = "stamping"
    /\ \E grainIndex \in BufferIndices(player.audioSeen, player.lastAudioGrainIndex) :
          player' = [player EXCEPT
              !.audioThread = "buffer",
              !.stamps = @ \cup {player.internalOffset[1]},
              !.audioSeen = TRUE,
              !.audioPrevious = IF player.audioSeen THEN Engaged(player.lastAudioGrainIndex)
                                ELSE Nullopt,
              !.lastAudioGrainIndex = grainIndex,
              !.audioWarned = SkipWarning(grainIndex, grainIndex)]
    /\ UNCHANGED <<groupVars, conv, ringVars>>

\* Line 874: the audio thread opens samples; a failure leaves the loop.
AudioOpensSamples ==
    /\ player.audioThread = "buffer"
    /\ \E ok \in BOOLEAN :
          player' = [player EXCEPT
              !.audioThread = IF ok THEN "opened" ELSE "failed",
              !.usedAfterRelease = UsedAfterRelease(player, player.flowWriterAudio)]
    /\ UNCHANGED <<groupVars, conv, ringVars>>

\* Line 895: the audio thread commits the samples.
AudioCommitsSamples ==
    /\ player.audioThread = "opened"
    /\ \E ok \in BOOLEAN :
          player' = [player EXCEPT
              !.audioThread = IF ok THEN "sleeping" ELSE "failed",
              !.usedAfterRelease = UsedAfterRelease(player, player.flowWriterAudio)]
    /\ UNCHANGED <<groupVars, conv, ringVars>>

\* Lines 904-905: mxlSleepForNs until the time of the samples written.
AudioThreadSleeps ==
    /\ player.audioThread = "sleeping"
    /\ player' = [player EXCEPT !.audioThread = "loop"]
    /\ UNCHANGED <<groupVars, conv, ringVars>>

\* Line 839: the audio thread finds running cleared and returns.
AudioThreadReturns ==
    /\ player.audioThread = "loop"
    /\ ~player.running
    /\ player' = [player EXCEPT !.audioThread = "done"]
    /\ UNCHANGED <<groupVars, conv, ringVars>>

\* The destructor goes on without waiting for the thread.
JoinedOrDetached(thread) == thread # "joined"

\* Lines 309-312 and 315-318: the destructor passes a thread that was never
\* created, and join() returns once the thread has returned.
Joined(thread) == thread \in {"none", "done", "failed"}

\* Lines 308-312 of the destructor.
DestructorJoinsVideo ==
    /\ player.main = "join_video"
    /\ Joined(player.videoThread)
    /\ player' = [player EXCEPT !.main = "join_audio"]
    /\ UNCHANGED <<groupVars, conv, ringVars>>

\* Lines 314-318.
DestructorJoinsAudio ==
    /\ player.main = "join_audio"
    /\ Joined(player.audioThread)
    /\ player' = [player EXCEPT !.main = "pipeline"]
    /\ UNCHANGED <<groupVars, conv, ringVars>>

\* Lines 320-334: the pipeline is stopped and the app sinks are unreferenced.
DestructorStopsPipeline ==
    /\ player.main = "pipeline"
    /\ player' = [player EXCEPT !.main = "release_video"]
    /\ UNCHANGED <<groupVars, conv, ringVars>>

\* Lines 338-341: mxlReleaseFlowWriter on the video writer, if there is one.
DestructorReleasesVideo ==
    /\ player.main = "release_video"
    /\ player' = [player EXCEPT
          !.main = "release_audio",
          !.flowWriterVideo = IF @ = WriterNull THEN @ ELSE WriterReleased,
          !.usedAfterRelease = @ \/ player.flowWriterVideo = WriterReleased
                                 \/ player.mxlInstance # "live"]
    /\ UNCHANGED <<groupVars, conv, ringVars>>

\* Lines 343-348: mxlReleaseFlowWriter on the audio writer, if there is one,
\* and mxlDestroyFlow.
DestructorReleasesAudio ==
    /\ player.main = "release_audio"
    /\ player' = [player EXCEPT
          !.main = "destroy_instance",
          !.flowWriterAudio = IF @ = WriterNull THEN @ ELSE WriterReleased,
          !.usedAfterRelease = @ \/ player.flowWriterAudio = WriterReleased
                                 \/ player.mxlInstance # "live"]
    /\ UNCHANGED <<groupVars, conv, ringVars>>

\* Line 350: mxlDestroyInstance.
DestructorDestroysInstance ==
    /\ player.main = "destroy_instance"
    /\ player' = [player EXCEPT !.main = "destroyed", !.mxlInstance = "destroyed"]
    /\ UNCHANGED <<groupVars, conv, ringVars>>

(***************************************************************************)
(* Properties.                                                             *)
(***************************************************************************)
\* A waitForDataAt has returned and no call on the group has followed it.
Returned == pc = "idle" /\ result # "none"

Enrolled(list, reader) == \E i \in 1..Len(list) : list[i].reader = reader

\* The entry of reader was skipped (line 85) or its wait returned OK.
Satisfied(reader) == outcome[reader] \in {"skipped", MXL_STATUS_OK}

\* The positions, in the list as it was at the call, of the entries whose wait failed.
FailedPositions ==
    {i \in 1..Len(pre) : outcome[pre[i].reader] \in Statuses \ {MXL_STATUS_OK}}

\* The step in which the blocking wait of waitForDataAt returns.
WaitReturns == pc = "blocked" /\ pc' # "blocked"

\* The step in which waitForDataAt examines the entry at `it` (lines 81-86).
Examines == pc = "loop" /\ (pc' # "loop" \/ it' # it)

\* C1: waitForDataAt returns OK iff every entry enrolled at the call was skipped
\* with headIndex >= expectedIndex or waited on with result OK; otherwise it
\* returns the status of the first entry, in list order, whose wait failed.
C1_OkIffEveryEntrySatisfied ==
    Returned =>
        /\ (result = MXL_STATUS_OK) <=> (\A i \in 1..Len(pre) : Satisfied(pre[i].reader))
        /\ result # MXL_STATUS_OK =>
              /\ FailedPositions # {}
              /\ LET first == CHOOSE i \in FailedPositions : \A j \in FailedPositions : i <= j
                 IN  result = outcome[pre[first].reader]

\* A call on three entries: the first was waited on with success, the wait on
\* the second timed out, the third was never examined.
C1_Witness ==
    /\ Returned
    /\ result = MXL_ERR_TIMEOUT
    /\ Len(pre) = 3
    /\ outcome[pre[1].reader] = MXL_STATUS_OK
    /\ outcome[pre[2].reader] = MXL_ERR_TIMEOUT
    /\ outcome[pre[3].reader] = "none"

\* C2: when a wait returns a status other than OK, waitForDataAt returns that
\* status in the same step: no other entry is examined or waited on, and the
\* list (order and fields) is as it was.
C2_FailedWaitReturnsAtOnce ==
    [][(WaitReturns /\ outcome'[readers[current].reader] # MXL_STATUS_OK) =>
          /\ pc' = "idle"
          /\ result' = outcome'[readers[current].reader]
          /\ readers' = readers
          /\ \A r \in Readers \ {readers[current].reader} : outcome'[r] = outcome[r]]_vars

\* A call returned ERR_UNDER_WRITE from an entry that has unexamined successors.
C2_Witness ==
    /\ Returned
    /\ result = MXL_ERR_UNDER_WRITE
    /\ \E i \in 1..Len(pre) :
          /\ outcome[pre[i].reader] = MXL_ERR_UNDER_WRITE
          /\ i < Len(pre)
          /\ \A j \in (i + 1)..Len(pre) : outcome[pre[j].reader] = "none"
    /\ readers = pre

\* C3: an entry whose reader's head index has reached expectedIndex is
\* skipped: no wait is issued and the list (order and fields, so the entry's
\* maxObservedSourceDelay and position) is unchanged by the step.
C3_SkipLeavesEntryAlone ==
    [][(/\ Examines
        /\ readers[it].reader \in alive
        /\ ExpectedIndex(readers[it]) <= headIndex[readers[it].reader]) =>
          /\ pc' # "blocked"
          /\ readers' = readers
          /\ outcome'[readers[it].reader] = "skipped"]_vars

\* An entry that is not the head and has observed a delay was skipped.
C3_Witness ==
    \E i \in 2..Len(readers) :
        /\ outcome[readers[i].reader] = "skipped"
        /\ readers[i].maxObservedSourceDelay > 0
        /\ pre = readers

\* The list the claim C4 describes after a successful wait on position i with
\* source delay d.
MovedToFront(list, i) == <<list[i]>> \o SubSeq(list, 1, i - 1) \o SubSeq(list, i + 1, Len(list))

ClaimedAfterWait(list, i, d) ==
    IF d > list[i].maxObservedSourceDelay
    THEN IF d > list[1].maxObservedSourceDelay
         THEN MovedToFront([list EXCEPT ![i].maxObservedSourceDelay = d], i)
         ELSE [list EXCEPT ![i].maxObservedSourceDelay = d]
    ELSE list

\* C4: after a successful wait on an entry, if sourceDelay exceeds the entry's
\* maxObservedSourceDelay the field is set to it, and if it also exceeds the
\* head's the entry itself is moved to the front; otherwise the order is unchanged.
C4_SuccessfulWaitMovesEntryToFront ==
    [][(/\ WaitReturns
        /\ pc' # "crashed"
        /\ outcome'[readers[current].reader] = MXL_STATUS_OK) =>
          readers' = ClaimedAfterWait(readers, current, SourceDelay(readers[current]))]_vars

\* C5: two discrete readers, A before B; in a call that returns OK A is skipped
\* and B is waited on and observed with a delay above both maxima: B is at
\* the head of the list when the call returns.
C5_BlockerMovesToHead ==
    [][(/\ WaitReturns
        /\ pc' = "idle"
        /\ result' = MXL_STATUS_OK
        /\ Len(readers) = 2
        /\ readers[1].variant = Discrete
        /\ readers[2].variant = Discrete
        /\ outcome[readers[1].reader] = "skipped"
        /\ current = 2
        /\ SourceDelay(readers[2]) > readers[1].maxObservedSourceDelay
        /\ SourceDelay(readers[2]) > readers[2].maxObservedSourceDelay) =>
          /\ Len(readers') = 2
          /\ readers'[1].reader = readers[2].reader]_vars

\* C6: a reader was destroyed while enrolled: the next waitForDataAt returns
\* ERR_READER_GONE and the reader's entry is no longer in the list.
C6_DestroyedReaderIsReported ==
    (Returned /\ goneAtCall # {}) =>
        /\ result = MXL_ERR_READER_GONE
        /\ \A r \in goneAtCall : ~Enrolled(readers, r)

\* C7 as claimed: a call that returns ERR_TIMEOUT leaves the order of the list
\* and every maxObservedSourceDelay as they were before the call.
C7_TimeoutLeavesListAsBefore ==
    (Returned /\ result = MXL_ERR_TIMEOUT) => readers = pre

\* C7 as amended: a call that returns ERR_TIMEOUT leaves the same entries in
\* the list (reader, variant, minValidSlices, grainRate), possibly in another
\* order, no maxObservedSourceDelay is smaller than before the call, and the
\* entry whose wait timed out is as it was before the call.
C7_TimeoutKeepsEntries ==
    (Returned /\ result = MXL_ERR_TIMEOUT) =>
        /\ Len(readers) = Len(pre)
        /\ \A i \in 1..Len(pre) :
              \E j \in 1..Len(readers) :
                 /\ readers[j].reader = pre[i].reader
                 /\ readers[j].variant = pre[i].variant
                 /\ readers[j].minValidSlices = pre[i].minValidSlices
                 /\ readers[j].grainRate = pre[i].grainRate
                 /\ readers[j].maxObservedSourceDelay >= pre[i].maxObservedSourceDelay
                 /\ outcome[pre[i].reader] = MXL_ERR_TIMEOUT => readers[j] = pre[i]

\* A call returned ERR_TIMEOUT after a successful wait earlier in the call had
\* moved an entry to the front.
C7_Witness ==
    /\ Returned
    /\ result = MXL_ERR_TIMEOUT
    /\ Len(pre) = 3
    /\ readers[1] = pre[3]
    /\ readers[3].maxObservedSourceDelay > pre[2].maxObservedSourceDelay

\* C8: the list holds at most one entry per reader.
C8_OneEntryPerReader ==
    \A i, j \in 1..Len(readers) : readers[i].reader = readers[j].reader => i = j

\* addReader has just been called on a reader that was enrolled, in a full group.
C8_Witness ==
    /\ lastOp.op = "addAgain"
    /\ Len(readers) = Cardinality(Readers)

\* C9: addReader(discreteReader, m) on an enrolled reader sets the entry's
\* minValidSlices to m and changes nothing else in the list; addReader on an
\* enrolled continuous reader changes nothing.
C9_ReAddOnlySetsMinValidSlices ==
    [][/\ \A r \in Readers, m \in SliceCounts :
             (AddReaderDiscrete(r, m) /\ Enrolled(readers, r)) =>
                 /\ Len(readers') = Len(readers)
                 /\ \A i \in 1..Len(readers) :
                       /\ readers'[i].reader = readers[i].reader
                       /\ readers'[i].variant = readers[i].variant
                       /\ readers'[i].grainRate = readers[i].grainRate
                       /\ readers'[i].maxObservedSourceDelay = readers[i].maxObservedSourceDelay
                       /\ readers'[i].minValidSlices =
                              IF readers[i].reader = r THEN m ELSE readers[i].minValidSlices
       /\ \A r \in Readers :
             (AddReaderContinuous(r) /\ Enrolled(readers, r)) => readers' = readers]_vars

\* addReader has just been called on an enrolled discrete reader whose entry
\* has observed a delay and is not the last of the list.
C9_Witness ==
    /\ lastOp.op = "addAgain"
    /\ \E i \in 1..Len(readers) :
          /\ readers[i].reader = lastOp.reader
          /\ readers[i].variant = Discrete
          /\ readers[i].maxObservedSourceDelay > 0
          /\ readers[i].minValidSlices = 2
          /\ i < Len(readers)

\* C10: removeReader on a reader that is not enrolled leaves the list as it
\* is, and a second removeReader of the same reader right after the first
\* changes nothing.
C10_RemoveAbsentIsNoOpAndIdempotent ==
    [][\A r \in Readers :
          RemoveReader(r) =>
              /\ ~Enrolled(readers, r) => readers' = readers
              /\ removeReader(readers', r) = readers']_vars

\* removeReader has just been called on a reader that was not enrolled, with
\* two other readers enrolled.
C10_Witness ==
    /\ lastOp.op = "removeAbsent"
    /\ Len(readers) = 2
    /\ ~Enrolled(readers, lastOp.reader)

\* The entry of reader in list.
EntryOf(list, reader) == list[CHOOSE i \in 1..Len(list) : list[i].reader = reader]

Max(a, b) == IF a >= b THEN a ELSE b

NonZeroRate(editRate) == editRate.numerator # Wide(0) /\ editRate.denominator # Wide(0)

PositiveRate(editRate) ==
    /\ NonZeroRate(editRate)
    /\ ~editRate.numerator.neg
    /\ ~editRate.denominator.neg

NTSC == Rational(Wide(30000), Wide(1001))

\* timestampToIndex has been applied to the given timestamp: conv.index is its result.
TimestampConverted ==
    conv.given = "timestamp" /\ conv.stage \in {"converted", "returned", "trapped"}

\* indexToTimestamp has been applied to the given index: conv.timestamp is its result.
IndexConverted == conv.given = "index" /\ conv.stage \in {"converted", "returned"}

\* floor((t*num + 5*10^8*den) / (10^9*den))
FloorIndex(editRate, t) ==
    WideDivFloor(WideAdd(WideMul(t, editRate.numerator),
                         WideMul(Wide(500000000), editRate.denominator)),
                 WideMul(Wide(1000000000), editRate.denominator))

\* floor((index*den*10^9 + num/2) / num), the half taken exactly.
FloorTimestamp(editRate, index) ==
    WideDivFloor(WideAdd(WideMul(Wide(2), WideMul(WideMul(index, editRate.denominator),
                                                 Wide(1000000000))),
                         editRate.numerator),
                 WideMul(Wide(2), editRate.numerator))

\* ceil(10^9*den / (2*num))
CeilHalfPeriod(editRate) ==
    WideNeg(WideDivFloor(WideNeg(WideMul(Wide(1000000000), editRate.denominator)),
                         WideMul(Wide(2), editRate.numerator)))

WideAbs(x) == Signed(FALSE, x.mag)

\* C12 as claimed: for every rate with non-zero terms and every 64-bit
\* timestamp, timestampToIndex is floor((t*num + 5*10^8*den) / (10^9*den)) and
\* no intermediate overflows.
C12_TimestampToIndexIsFloor ==
    (TimestampConverted /\ NonZeroRate(conv.editRate)) =>
        /\ conv.index = FloorIndex(conv.editRate, conv.timestamp)
        /\ ~timestampToIndexOverflows(conv.editRate, conv.timestamp)

\* C12 as amended: for every rate with non-zero terms and every 64-bit
\* timestamp no intermediate overflows, and where
\* floor((t*num + 5*10^8*den) / (10^9*den)) lies in 0 .. 2^64-1 it is the result.
C12_TimestampToIndexIsFloorInRange ==
    (TimestampConverted /\ NonZeroRate(conv.editRate)) =>
        /\ ~timestampToIndexOverflows(conv.editRate, conv.timestamp)
        /\ LET floor == FloorIndex(conv.editRate, conv.timestamp)
           IN  (~floor.neg /\ WideLess(floor, Two64)) => conv.index = floor

\* The largest timestamp at the NTSC rate: t*num needs more than 64 bits.
C12_Witness ==
    /\ TimestampConverted
    /\ conv.editRate = NTSC
    /\ conv.timestamp = INT64_MAX
    /\ ~InInt64(WideMul(conv.timestamp, conv.editRate.numerator))
    /\ conv.index = FloorIndex(conv.editRate, conv.timestamp)

C14_ZeroTermGivesUndefined ==
    ~NonZeroRate(conv.editRate) =>
        /\ TimestampConverted => conv.index = Signed(FALSE, <<1615, 955, 737, 6744, 1844>>)
        /\ IndexConverted => conv.timestamp = Wide(0)
        /\ conv.stage = "returned" => conv.back = IF conv.given = "timestamp"
                                                  THEN Wide(0)
                                                  ELSE Signed(FALSE, <<1615, 955, 737, 6744, 1844>>)

\* A rate with a zero numerator only, applied to a timestamp other than 0 and
\* then to the index it gave.
C14_Witness ==
    /\ conv.editRate = Rational(Wide(0), Wide(1))
    /\ conv.given = "timestamp"
    /\ conv.timestamp = INT64_MAX
    /\ conv.stage = "returned"

\* C15: at the rate 30000/1001, timestampToIndex(indexToTimestamp(index)) =
\* index for every index in 0 .. 10^6.
C15_NtscIndexRoundTrip ==
    (/\ conv.editRate = NTSC
     /\ conv.given = "index"
     /\ WideLeq(conv.index, Wide(1000000))
     /\ conv.stage = "returned") => conv.back = conv.index

\* The round trip of the last index of the range.
C15_Witness ==
    /\ conv.editRate = NTSC
    /\ conv.given = "index"
    /\ conv.index = Wide(1000000)
    /\ conv.stage = "returned"
    /\ conv.timestamp # conv.index

\* C16 as claimed: for every rate with positive terms and every timestamp t,
\* indexToTimestamp(timestampToIndex(t)) differs from t by at most
\* ceil(10^9*den / (2*num)).
C16_TimestampRoundTripWithinHalfPeriod ==
    (/\ PositiveRate(conv.editRate)
     /\ conv.given = "timestamp"
     /\ conv.stage = "returned") =>
        WideLeq(WideAbs(WideSub(conv.back, conv.timestamp)), CeilHalfPeriod(conv.editRate))

\* C16 as amended: the same for every timestamp t >= 0 whose index
\* floor((t*num + 5*10^8*den) / (10^9*den)) is below 2^64 and for which
\* t + ceil(10^9*den / (2*num)) is at most 2^63-1.
C16_TimestampRoundTripInRange ==
    (/\ PositiveRate(conv.editRate)
     /\ conv.given = "timestamp"
     /\ ~conv.timestamp.neg
     /\ WideLess(FloorIndex(conv.editRate, conv.timestamp), Two64)
     /\ WideLeq(WideAdd(conv.timestamp, CeilHalfPeriod(conv.editRate)), INT64_MAX)
     /\ conv.stage = "returned") =>
        WideLeq(WideAbs(WideSub(conv.back, conv.timestamp)), CeilHalfPeriod(conv.editRate))

\* A timestamp between two grains of the NTSC rate: the round trip moves it.
C16_Witness ==
    /\ conv.editRate = NTSC
    /\ conv.given = "timestamp"
    /\ conv.timestamp = Wide(999966666)
    /\ conv.stage = "returned"
    /\ conv.back # conv.timestamp

\* C17 as claimed: at the rate 30000/1001, timestampToIndex(1 000 000 000) = 30
\* and indexToTimestamp(30) lies in 999 966 666 .. 1 000 000 000.
C17_NtscOneSecond ==
    conv.editRate = NTSC =>
        /\ (TimestampConverted /\ conv.timestamp = Wide(1000000000)) => conv.index = Wide(30)
        /\ (IndexConverted /\ conv.index = Wide(30)) =>
               /\ WideLeq(Wide(999966666), conv.timestamp)
               /\ WideLeq(conv.timestamp, Wide(1000000000))

\* C17 as amended: at the rate 30000/1001, timestampToIndex(1 000 000 000) = 30
\* and indexToTimestamp(30) = 1 001 000 000.
C17_NtscOneSecondIsThirtyGrains ==
    conv.editRate = NTSC =>
        /\ (TimestampConverted /\ conv.timestamp = Wide(1000000000)) => conv.index = Wide(30)
        /\ (IndexConverted /\ conv.index = Wide(30)) => conv.timestamp = Wide(1001000000)
        /\ (conv.given = "timestamp" /\ conv.timestamp = Wide(1000000000)
               /\ conv.stage = "returned") => conv.back = Wide(1001000000)

\* One second converted to an index at the NTSC rate, and the index back.
C17_Witness ==
    /\ conv.editRate = NTSC
    /\ conv.given = "timestamp"
    /\ conv.timestamp = Wide(1000000000)
    /\ conv.stage = "returned"

ReaderReturned == grainReader.pc = "returned"

\* The writer did nothing between the call of getGrain and its return.
WriterQuiet == writer.pc = "idle" /\ writer.headIndex = grainReader.headAtCall

\* C18 as stated: while the writer has opened no grain after i, getGrain(i)
\* returns ERR_NOT_READY, or OK with exactly the frame the writer copied into
\* the grain before its commit.
C18_NotReadyOrWholePayload ==
    (ReaderReturned /\ writer.grainIndex <= grainReader.requested) =>
        /\ grainReader.status \in {MXL_ERR_NOT_READY, MXL_STATUS_OK}
        /\ grainReader.status = MXL_STATUS_OK =>
               grainReader.payload = Frame(grainReader.requested)

\* C18 as amended: getGrain(i) returns OK only for a committed grain and with
\* exactly the frame the writer copied into it before its commit, never with
\* bytes of different writes; while the writer has opened no grain after i it
\* returns ERR_NOT_READY, OK, or ERR_UNDER_WRITE when the write outlasts the
\* spin budget.
C18_NoTornRead ==
    ReaderReturned =>
        /\ grainReader.status = MXL_STATUS_OK =>
               /\ grainReader.payload = Frame(grainReader.requested)
               /\ grainReader.info.validSlices = SlicesPerGrain
               /\ writer.headIndex >= grainReader.requested
        /\ writer.grainIndex <= grainReader.requested =>
               grainReader.status \in {MXL_ERR_NOT_READY, MXL_STATUS_OK, MXL_ERR_UNDER_WRITE}

\* getGrain(i) met the write of grain i, tried again and returned the grain.
C18_Witness ==
    /\ ReaderReturned
    /\ grainReader.status = MXL_STATUS_OK
    /\ grainReader.spins > 0
    /\ writer.grainIndex = grainReader.requested
    /\ grainReader.headAtCall < grainReader.requested

\* C19: getGrain returns OK if and only if the generation it loaded before
\* reading the fields equals the one it loaded after, that generation is even
\* and the index it read is the requested one; it reads the fields only after
\* loading an even generation, and what a write in progress has stored (no
\* valid slice yet) is never returned.
C19_AcceptIffStableEvenAndIndexMatches ==
    /\ ReaderReturned =>
           (grainReader.status = MXL_STATUS_OK <=>
                /\ grainReader.gen1 = grainReader.gen2
                /\ grainReader.gen1 % 2 = 0
                /\ grainReader.info.index = grainReader.requested)
    /\ grainReader.pc \in {"fields", "payload", "gen2"} => grainReader.gen1 % 2 = 0
    /\ (ReaderReturned /\ grainReader.status = MXL_STATUS_OK) =>
           grainReader.info.validSlices = SlicesPerGrain

\* getGrain read the requested index under an even generation, found another
\* generation afterwards and did not accept.
C19_Witness ==
    /\ ReaderReturned
    /\ grainReader.status # MXL_STATUS_OK
    /\ grainReader.gen1 % 2 = 0
    /\ grainReader.gen1 # grainReader.gen2
    /\ grainReader.info.index = grainReader.requested

C20_WitnessHead ==
    /\ ReaderReturned
    /\ WriterQuiet
    /\ writer.headIndex = 7
    /\ grainReader.requested = 7
    /\ grainReader.status = MXL_STATUS_OK

GrainReady(entry) ==
    /\ headIndex[entry.reader] >= ExpectedIndex(entry)
    /\ GrainSlices(entry.reader, ExpectedIndex(entry)) >= entry.minValidSlices

\* The wait on a discrete entry returns status.
GrainWaitReturns(status) ==
    /\ WaitReturns
    /\ readers[current].variant = Discrete
    /\ outcome'[readers[current].reader] = status

\* A wait blocked at or after its deadline returns.
NoWaitPastDeadline == (pc = "blocked" /\ now >= deadline) ~> (pc # "blocked")

C23_WaitByVariantWithCommonDeadline ==
    [][/\ (pc \in {"loop", "blocked"} /\ pc' \in {"loop", "blocked"})
             => deadline' = deadline /\ originTime' = originTime
       /\ WaitReturns =>
             LET entry == readers[current]
             IN  /\ outcome'[entry.reader] \in Statuses
                 /\ ReaderVariant(entry.reader) = Discrete =>
                       outcome'[entry.reader] \in
                           waitForGrain(entry.reader, ExpectedIndex(entry),
                                        entry.minValidSlices, deadline)
                 /\ ReaderVariant(entry.reader) = Continuous =>
                       outcome'[entry.reader] \in
                           waitForSamples(entry.reader, ExpectedIndex(entry), deadline)]_vars

\* One call has waited on a discrete entry, with success, and then on a
\* continuous one, until the deadline.
C23_Witness ==
    /\ Returned
    /\ result = MXL_ERR_TIMEOUT
    /\ \E r1, r2 \in Readers :
          /\ ReaderVariant(r1) = Discrete
          /\ ReaderVariant(r2) = Continuous
          /\ outcome[r1] = MXL_STATUS_OK
          /\ outcome[r2] = MXL_ERR_TIMEOUT

\* C24: in the player's teardown no flow writer is released while a worker
\* thread has not been joined, the instance is destroyed only after every
\* flow writer has been released, and no call is made on a released writer.
C24_JoinThenReleaseThenDestroy ==
    /\ (WriterReleased \in {player.flowWriterVideo, player.flowWriterAudio})
          => /\ player.videoThread \in {"none", "done", "failed"}
             /\ player.audioThread \in {"none", "done", "failed"}
             /\ player.main \in {"release_audio", "destroy_instance", "destroyed"}
    /\ player.mxlInstance = "destroyed"
          => WriterOpen \notin {player.flowWriterVideo, player.flowWriterAudio}
    /\ ~player.usedAfterRelease

\* Both threads have run and were joined, both writers were released and
\* the instance is destroyed.
C24_Witness ==
    /\ player.main = "destroyed"
    /\ player.mxlInstance = "destroyed"
    /\ player.videoThread = "done"
    /\ player.audioThread = "done"
    /\ player.flowWriterVideo = WriterReleased
    /\ player.flowWriterAudio = WriterReleased

\* The entry has the reader, variant, minValidSlices and grain rate of other.
SameEnrolment(entry, other) ==
    /\ entry.reader = other.reader
    /\ entry.variant = other.variant
    /\ entry.minValidSlices = other.minValidSlices
    /\ entry.grainRate = other.grainRate

\* C25: after a call of waitForDataAt has returned, with OK or not, the list
\* is a permutation of the list at the call, each entry with its reader,
\* variant, minValidSlices and grainRate as before.
C25_CallKeepsEnrolment ==
    Returned =>
        /\ Len(readers) = Len(pre)
        /\ \A i \in 1..Len(pre) :
              \E j \in 1..Len(readers) : SameEnrolment(readers[j], pre[i])

\* C26: in a call of waitForDataAt that has returned OK every entry enrolled
\* at the call was examined exactly once.
C26_EachEntryExaminedOnce ==
    (Returned /\ result = MXL_STATUS_OK) =>
        \A i \in 1..Len(pre) : Len(examined[pre[i].reader]) = 1

\* C27: with addReader and waitForDataAt as the only calls on the group,
\* between calls the entry at the head of the list has a
\* maxObservedSourceDelay no smaller than any other entry's.
C27_HeadHasLargestDelay ==
    (pc = "idle" /\ readers # <<>>) =>
        \A i \in 1..Len(readers) :
            readers[1].maxObservedSourceDelay >= readers[i].maxObservedSourceDelay

\* C28: in a call of waitForDataAt that has returned OK, the grain at the
\* expected index of every discrete entry enrolled at the call had at least
\* the entry's minValidSlices valid slices each time the entry was examined,
\* whether it was skipped or waited on.
C28_OkMeansEnoughSlices ==
    (Returned /\ result = MXL_STATUS_OK) =>
        \A i \in 1..Len(pre) :
            pre[i].variant = Discrete =>
                \A k \in 1..Len(examined[pre[i].reader]) :
                    examined[pre[i].reader][k] >= pre[i].minValidSlices

\* C29: addReader on a reader that is not enrolled appends one entry at the
\* tail, for that reader, with maxObservedSourceDelay 0 and the grain rate of
\* the reader's flow configuration; the entries that were there are unchanged
\* and in the same order.
C29_AddNewAppendsOneEntry ==
    [][\A r \in Readers :
          (/\ \/ \E m \in SliceCounts : AddReaderDiscrete(r, m)
              \/ AddReaderContinuous(r)
           /\ ~Enrolled(readers, r)) =>
              /\ Len(readers') = Len(readers) + 1
              /\ SubSeq(readers', 1, Len(readers)) = readers
              /\ readers'[Len(readers')].reader = r
              /\ readers'[Len(readers')].variant = ReaderVariant(r)
              /\ readers'[Len(readers')].maxObservedSourceDelay = 0
              /\ readers'[Len(readers')].grainRate = ConfigGrainRate(r)]_vars

\* addReader has just enrolled a reader behind two entries, one of which has
\* observed a delay.
C29_Witness ==
    /\ lastOp.op = "addNew"
    /\ Len(readers) = 3
    /\ readers[3].reader = lastOp.reader
    /\ readers[3].maxObservedSourceDelay = 0
    /\ \E i \in 1..2 : readers[i].maxObservedSourceDelay > 0

\* C30: removeReader on an enrolled reader removes that reader's entry and
\* nothing else: the other entries stay in the same order with their fields
\* unchanged.
C30_RemoveEnrolledErasesOnlyThatEntry ==
    [][\A r \in Readers :
          (RemoveReader(r) /\ Enrolled(readers, r)) =>
              /\ Len(readers') = Len(readers) - 1
              /\ ~Enrolled(readers', r)
              /\ \E i \in 1..Len(readers) :
                    /\ readers[i].reader = r
                    /\ SubSeq(readers', 1, i - 1) = SubSeq(readers, 1, i - 1)
                    /\ SubSeq(readers', i, Len(readers')) = SubSeq(readers, i + 1, Len(readers))]_vars

\* removeReader has just removed the entry between two others, one of which
\* has observed a delay.
C30_Witness ==
    /\ lastOp.op = "removePresent"
    /\ Len(readers) = 2
    /\ ~Enrolled(readers, lastOp.reader)
    /\ lastOp.reader = "B"
    /\ readers[1].reader = "C"
    /\ readers[2].reader = "A"
    /\ \E i \in 1..2 : readers[i].maxObservedSourceDelay > 0

\* C31: the 'skipped grain index' warning is raised for a buffer only when
\* its grain index is not the successor of the grain index of the buffer the
\* thread processed before it.
C31_WarningOnlyOnSkippedIndex ==
    /\ (player.videoWarned /\ player.videoPrevious # Nullopt)
          => player.lastVideoGrainIndex # player.videoPrevious[1] + 1
    /\ (player.audioWarned /\ player.audioPrevious # Nullopt)
          => player.lastAudioGrainIndex # player.audioPrevious[1] + 1


\* C32: whatever the interleaving of the two threads, the internal offset is
\* assigned at most once and every buffer of both threads is re-stamped with
\* one and the same offset value.
C32_OffsetAssignedOnce ==
    /\ Len(player.assigned) <= 1
    /\ Cardinality(player.stamps) <= 1


\* C33: once a signal has set g_exit_requested, main leaves its wait loop and
\* calls stop(); after stop() both threads leave their loops and are joined by
\* the destructor; and the process runs to the end of main.
C33_SignalEndsTheProcess ==
    /\ (player.exitRequested /\ player.main = "started")
          ~> (player.main = "stopped" /\ ~player.running)
    /\ (player.main = "stopped")
          ~> (/\ player.main = "pipeline"
              /\ Joined(player.videoThread)
              /\ Joined(player.audioThread))
    /\ player.exitRequested ~> (player.main = "destroyed")

\* The signal arrived while both threads were in their loops, and main has
\* returned with both threads back from their loops.
C33_Witness ==
    /\ player.exitRequested
    /\ ~player.running
    /\ player.main = "destroyed"
    /\ player.videoThread = "done"
    /\ player.audioThread = "done"


\* C34: once a thread has left its loop because opening or committing failed,
\* the player stops reporting itself as running and main leaves its wait
\* loop, whether or not a signal arrives.
C34_FailureEndsTheWait ==
    (/\ player.main = "started"
     /\ "failed" \in {player.videoThread, player.audioThread})
        ~> (~player.running /\ player.main # "started")


Init == GroupInit /\ conv = NoConversion /\ RingInit /\ PlayerInit

\* The group used as its raw pointers require: no enrolled reader is destroyed.
Next ==
    \/ \E r \in Readers, m \in SliceCounts : AddReaderDiscrete(r, m)
    \/ \E r \in Readers : AddReaderContinuous(r)
    \/ \E r \in Readers : RemoveReader(r)
    \/ \E r \in Readers, n \in SliceCounts : Commit(r, n)
    \/ \E r \in Readers : CommitSlice(r)
    \/ Tick
    \/ \E t \in OriginTimes, d \in Times : WaitForDataAt(t, d)
    \/ Examine
    \/ \E s \in Statuses : WaitFails(s)
    \/ \E s \in Statuses : WaitSucceeds(s)
    \/ \E s \in Statuses : WaitSucceedsSplice(s)
    \/ \E s \in Statuses : WaitSucceedsSpliceLastEmpties(s)
    \/ \E s \in Statuses : WaitSucceedsSpliceLastFaults(s)

Spec == Init /\ [][Next]_vars

\* The same with readers destroyed while the group still points to them.
NextGone ==
    \/ Next
    \/ \E r \in Readers : DestroyReader(r)
    \/ ExamineFaults

SpecGone == Init /\ [][NextGone]_vars

\* A wait whose deadline has passed returns: the poll of waitForGrain and
\* waitForSamples never sleeps longer than the deadline.
WaitReturnsAtDeadline ==
    /\ pc = "blocked"
    /\ now >= deadline
    /\ \E s \in Statuses :
          \/ WaitFails(s)
          \/ WaitSucceeds(s)
          \/ WaitSucceedsSplice(s)
          \/ WaitSucceedsSpliceLastEmpties(s)
          \/ WaitSucceedsSpliceLastFaults(s)

SpecLive == Spec /\ WF_vars(WaitReturnsAtDeadline)

\* The group with addReader and waitForDataAt as its only calls.
NextNoRemove ==
    \/ \E r \in Readers, m \in SliceCounts : AddReaderDiscrete(r, m)
    \/ \E r \in Readers : AddReaderContinuous(r)
    \/ \E r \in Readers, n \in SliceCounts : Commit(r, n)
    \/ \E r \in Readers : CommitSlice(r)
    \/ Tick
    \/ \E t \in OriginTimes, d \in Times : WaitForDataAt(t, d)
    \/ Examine
    \/ \E s \in Statuses : WaitFails(s)
    \/ \E s \in Statuses : WaitSucceeds(s)
    \/ \E s \in Statuses : WaitSucceedsSplice(s)
    \/ \E s \in Statuses : WaitSucceedsSpliceLastEmpties(s)
    \/ \E s \in Statuses : WaitSucceedsSpliceLastFaults(s)

SpecNoRemove == Init /\ [][NextNoRemove]_vars

\* The index ring with its writer and a reader on their own.
InitRing == GroupInit /\ conv = NoConversion /\ RingInit /\ PlayerInit

NextRing ==
    \/ WriterOpenGrain
    \/ WriterOpenGrainReturns
    \/ WriterFillsInfo
    \/ WriterMemcpy
    \/ WriterCommitGrain
    \/ WriterCommitGrainReturns
    \/ GetGrain
    \/ ReaderLoadsGen1
    \/ ReaderReadsFields
    \/ ReaderReadsPayload
    \/ ReaderLoadsGen2

SpecRing == InitRing /\ [][NextRing]_vars

\* The index conversions on their own.
InitConv == GroupInit /\ ConvInit /\ RingInit /\ PlayerInit

NextConv ==
    \/ TimestampToIndex
    \/ IndexToTimestamp
    \/ IndexToTimestampTraps

SpecConv == InitConv /\ [][NextConv]_vars

\* The looping file player on its own.
InitPlayer == GroupInit /\ conv = NoConversion /\ RingInit /\ PlayerInit

\* The steps of main, from open to the end of the destructor.
MainStep ==
    \/ PlayerOpen
    \/ PlayerStart
    \/ MainLeavesLoop
    \/ PlayerStop
    \/ PlayerReset
    \/ DestructorJoinsVideo
    \/ DestructorJoinsAudio
    \/ DestructorStopsPipeline
    \/ DestructorReleasesVideo
    \/ DestructorReleasesAudio
    \/ DestructorDestroysInstance

\* The steps of the thread start() creates for the video sink.
VideoStep ==
    \/ VideoPullsSample
    \/ VideoTestsOffset
    \/ VideoSetsOffset
    \/ VideoStampsBuffer
    \/ VideoOpensGrain
    \/ VideoCommitsGrain
    \/ VideoThreadSleeps
    \/ VideoThreadReturns

\* The steps of the thread start() creates for the audio sink.
AudioStep ==
    \/ AudioPullsSample
    \/ AudioTestsOffset
    \/ AudioSetsOffset
    \/ AudioStampsBuffer
    \/ AudioOpensSamples
    \/ AudioCommitsSamples
    \/ AudioThreadSleeps
    \/ AudioThreadReturns

NextPlayer ==
    \/ SignalHandler
    \/ PlayerOpen
    \/ PlayerStart
    \/ MainLeavesLoop
    \/ PlayerStop
    \/ PlayerReset
    \/ VideoPullsSample
    \/ VideoTestsOffset
    \/ VideoSetsOffset
    \/ VideoStampsBuffer
    \/ VideoOpensGrain
    \/ VideoCommitsGrain
    \/ VideoThreadSleeps
    \/ VideoThreadReturns
    \/ AudioPullsSample
    \/ AudioTestsOffset
    \/ AudioSetsOffset
    \/ AudioStampsBuffer
    \/ AudioOpensSamples
    \/ AudioCommitsSamples
    \/ AudioThreadSleeps
    \/ AudioThreadReturns
    \/ DestructorJoinsVideo
    \/ DestructorJoinsAudio
    \/ DestructorStopsPipeline
    \/ DestructorReleasesVideo
    \/ DestructorReleasesAudio
    \/ DestructorDestroysInstance

SpecPlayer == InitPlayer /\ [][NextPlayer]_vars

\* The operating system schedules main and the two threads, and each sample
\* pull, sleep and join returns in bounded time: every one of the three keeps
\* taking the step it is at. Nothing makes a signal arrive.
SpecPlayerLive ==
    /\ SpecPlayer
    /\ WF_vars(MainStep)
    /\ WF_vars(VideoStep)
    /\ WF_vars(AudioStep)
====
